---- MODULE Spec2Model ----
(***************************************************************************)
(* Model of the TikiWiki scraper.  First its corpus statistics collector   *)
(* (src/keywords/domain_artifacts.py, class DomainKeywordCollector).       *)
(*                                                                         *)
(* Strings are sequences of one-character strings, so that lower(),        *)
(* strip(), isalpha(), isupper(), split() and sorted() are computed as     *)
(* Python computes them.  The empty sequence stands for Python's None in   *)
(* the results of the normalisers (the code only tests them for truth, and *)
(* a normaliser never returns the empty string).                           *)
(*                                                                         *)
(* A document is given as the output of the NLP pipeline on it: the token  *)
(* stream of the content and of the title, and the noun chunks of the      *)
(* content with their lemma.                                               *)
(***************************************************************************)
EXTENDS Integers, Sequences, FiniteSets, TLC

VARIABLES
    engine,      \* the collector instance the caller holds, or NoEngine
    stats,       \* domain_stats.json: Absent, Garbage or the JSON object
    symspell,    \* symspell_dictionary.txt: Absent or its lines
    ref,         \* history: a collector that consumed the same documents without dump/load
    snap,        \* history: the collector state and min_df of the dump that wrote the files
    resumed,     \* history: every load so far read the snapshot of the state it replaced
    last,        \* history: the operation that led to this state
    nConsumed,   \* number of consume_document calls so far
    calls,       \* the consume_document calls of two threads on the one collector
    overlapped,  \* history: a call began while another one was under way
    soup,        \* the content container handed to extract_structured_content
    content_parts, \* the blocks of the last extraction, in the order of their append
    result,      \* what the last extraction returned: text, tables, lists
    site,        \* the knowledge base: the content version of every page
    cache_file,  \* tiki_page_cache.json: Absent or the JSON object
    TIKI_URLS,   \* what detect_updated_pages returned to the running script
    cursor,      \* the place of the loop of start in TIKI_URLS
    index,       \* the search index: the content version indexed for a page
    owed,        \* history: pages reported whose processing failed, not edited since
    fetched,     \* history: pages whose raw fetch succeeded in the last detection
    nRuns,       \* number of runs of the script so far
    nEdits       \* number of page edits so far

collectorVars == <<engine, stats, symspell, ref, snap, resumed, last, nConsumed>>
raceVars == <<calls, overlapped>>
scraperVars == <<soup, content_parts, result>>
pageVars == <<site, cache_file, TIKI_URLS, cursor, index, owed, fetched, nRuns, nEdits>>
vars == <<engine, stats, symspell, ref, snap, resumed, last, nConsumed,
          calls, overlapped, soup, content_parts, result,
          site, cache_file, TIKI_URLS, cursor, index, owed, fetched, nRuns, nEdits>>

(***************************************************************************)
(* Bounds of the model.                                                    *)
(***************************************************************************)
MaxConsume == 3      \* consume_document calls in one behaviour
MaxMinDf == 2        \* dump is called with min_df in 1..MaxMinDf
MaxFilesConsume == 2     \* consume_document calls when the files get damaged
MaxCorpusConsume == 1    \* consume_document calls on top of a large corpus
MaxCallOps == 8      \* counter increments of a call that runs beside another
MaxChildren == 2     \* blocks of a generated page
MaxRows == 2         \* rows of a generated table
MaxItems == 2        \* items of a generated list
MaxRuns == 3         \* runs of the script
MaxEdits == 1        \* edits of pages of the knowledge base

(***************************************************************************)
(* Program constants.                                                      *)
(***************************************************************************)
min_token_len == 3
max_token_len == 40
StopNum == 85        \* the stop-term threshold 0.85 = StopNum / StopDen
StopDen == 100

(***************************************************************************)
(* Python str operations on the characters the model uses.                 *)
(***************************************************************************)
Lowers == <<"a","b","c","d","e","f","g","h","i","j","k","l","m",
            "n","o","p","q","r","s","t","u","v","w","x","y","z">>
Uppers == <<"A","B","C","D","E","F","G","H","I","J","K","L","M",
            "N","O","P","Q","R","S","T","U","V","W","X","Y","Z">>
Digits == <<"0","1","2","3","4","5","6","7","8","9">>

Range(s) == {s[i] : i \in 1..Len(s)}

LowerSet == Range(Lowers)
UpperSet == Range(Uppers)
DigitSet == Range(Digits)
Chars == {" ", "."} \cup DigitSet \cup UpperSet \cup LowerSet

IndexIn(s, c) == CHOOSE i \in 1..Len(s) : s[i] = c

IsSpaceChar(c) == c = " "
IsAlphaChar(c) == c \in LowerSet \/ c \in UpperSet

\* ord(c): the code point of a character (what sorted() compares)
OrdTable ==
    [c \in Chars |->
        IF c = " " THEN 32
        ELSE IF c = "." THEN 46
        ELSE IF c \in DigitSet THEN 47 + IndexIn(Digits, c)
        ELSE IF c \in UpperSet THEN 64 + IndexIn(Uppers, c)
        ELSE 96 + IndexIn(Lowers, c)]

Ord(c) == OrdTable[c]

\* c.lower()
LowerTable ==
    [c \in Chars |-> IF c \in UpperSet THEN Lowers[IndexIn(Uppers, c)] ELSE c]

LowerChar(c) == LowerTable[c]

\* str.lower()
StrLower(s) == [i \in 1..Len(s) |-> LowerChar(s[i])]

\* str.strip()
RECURSIVE LStrip(_)
LStrip(s) == IF s # <<>> /\ IsSpaceChar(Head(s)) THEN LStrip(Tail(s)) ELSE s

RECURSIVE RStrip(_)
RStrip(s) ==
    IF s # <<>> /\ IsSpaceChar(s[Len(s)]) THEN RStrip(SubSeq(s, 1, Len(s) - 1)) ELSE s

StrStrip(s) == RStrip(LStrip(s))

\* str.isalpha(): non-empty and every character alphabetic
StrIsAlpha(s) == s # <<>> /\ \A i \in 1..Len(s) : IsAlphaChar(s[i])

\* str.isupper(): at least one cased character and no lower-case one
StrIsUpper(s) ==
    /\ \E i \in 1..Len(s) : s[i] \in UpperSet
    /\ \A i \in 1..Len(s) : s[i] \notin LowerSet

\* str.split(): the maximal runs of non-whitespace characters
RECURSIVE SplitFrom(_, _, _)
SplitFrom(s, word, acc) ==
    IF s = <<>> THEN (IF word = <<>> THEN acc ELSE Append(acc, word))
    ELSE IF IsSpaceChar(Head(s))
         THEN SplitFrom(Tail(s), <<>>, IF word = <<>> THEN acc ELSE Append(acc, word))
         ELSE SplitFrom(Tail(s), Append(word, Head(s)), acc)

StrSplit(s) == SplitFrom(s, <<>>, <<>>)

\* ' '.join(words)
RECURSIVE JoinSpace(_)
JoinSpace(words) ==
    IF words = <<>> THEN <<>>
    ELSE IF Len(words) = 1 THEN words[1]
    ELSE words[1] \o <<" ">> \o JoinSpace(Tail(words))

\* a < b for str: lexicographic by code point, a proper prefix first
RECURSIVE StrLess(_, _)
StrLess(a, b) ==
    IF b = <<>> THEN FALSE
    ELSE IF a = <<>> THEN TRUE
    ELSE IF Ord(Head(a)) # Ord(Head(b)) THEN Ord(Head(a)) < Ord(Head(b))
    ELSE StrLess(Tail(a), Tail(b))

\* sorted(set of str)
RECURSIVE SortedSeq(_)
SortedSeq(S) ==
    IF S = {} THEN <<>>
    ELSE LET x == CHOOSE y \in S : TRUE
             rest == SortedSeq(S \ {x})
             k == Cardinality({i \in 1..Len(rest) : StrLess(rest[i], x)})
         IN  SubSeq(rest, 1, k) \o <<x>> \o SubSeq(rest, k + 1, Len(rest))

(***************************************************************************)
(* Term normalisers.                                                       *)
(***************************************************************************)
None == <<>>

normalise_text(text) ==
    IF text = <<>> THEN None
    ELSE LET term == StrStrip(StrLower(text))
         IN  IF ~StrIsAlpha(term) THEN None
             ELSE IF ~(min_token_len <= Len(term) /\ Len(term) <= max_token_len) THEN None
             ELSE term

normalise_token(token) ==
    IF token.is_stop \/ token.is_punct \/ token.like_num THEN None
    ELSE normalise_text(token.lemma)

normalise_phrase(text) ==
    IF text = <<>> THEN None
    ELSE LET term == StrStrip(StrLower(text))
         IN  IF ~(\E i \in 1..Len(term) : IsAlphaChar(term[i])) THEN None
             ELSE LET joined == JoinSpace(StrSplit(term))
                  IN  IF ~(min_token_len <= Len(joined) /\ Len(joined) <= max_token_len)
                      THEN None
                      ELSE joined

(***************************************************************************)
(* collections.Counter: a function on the keys it holds; a missing key     *)
(* reads as 0 and is created by the first increment.                       *)
(***************************************************************************)
EmptyCounter == [t \in {} |-> 0]

Get(c, t) == IF t \in DOMAIN c THEN c[t] ELSE 0

\* c[t] += n
Inc(c, t, n) == [u \in DOMAIN c \cup {t} |-> Get(c, u) + (IF u = t THEN n ELSE 0)]

\* for t in terms: c[t] += 1
RECURSIVE AddAll(_, _)
AddAll(c, terms) ==
    IF terms = <<>> THEN c ELSE AddAll(Inc(c, Head(terms), 1), Tail(terms))

FilterNone(terms) == SelectSeq(terms, LAMBDA t : t # None)

RECURSIVE Concat(_)
Concat(seqs) == IF seqs = <<>> THEN <<>> ELSE Head(seqs) \o Concat(Tail(seqs))

(***************************************************************************)
(* The collector.                                                          *)
(***************************************************************************)
NoEngine == [alive |-> FALSE]

\* __init__
NewEngine ==
    [alive |-> TRUE, doc_count |-> 0, df |-> EmptyCounter, tf |-> EmptyCounter,
     title_hits |-> EmptyCounter, llm_hits |-> EmptyCounter,
     acronym_hits |-> EmptyCounter]

\* for chunk in doc.noun_chunks: term = _normalise_text(chunk.lemma_)
ChunkTerms(doc) ==
    FilterNone([i \in 1..Len(doc.chunks) |-> normalise_text(doc.chunks[i].lemma)])

\* processed_tokens: the indices of the tokens inside a noun chunk
ProcessedTokens(doc) ==
    UNION {doc.chunks[i].first .. doc.chunks[i].last : i \in 1..Len(doc.chunks)}

\* the term of content token i in the token loop, None when the loop skips it
TokenTermAt(doc, i) ==
    IF i \in ProcessedTokens(doc) THEN None ELSE normalise_token(doc.content[i])

TokenTerms(doc) ==
    FilterNone([i \in 1..Len(doc.content) |-> TokenTermAt(doc, i)])

\* the terms whose _acronym_hits the token loop increments, one per token
TokenAcronymAt(doc, i) ==
    IF TokenTermAt(doc, i) # None
       /\ StrIsUpper(doc.content[i].text) /\ Len(doc.content[i].text) > 1
    THEN TokenTermAt(doc, i)
    ELSE None

TokenAcronyms(doc) ==
    FilterNone([i \in 1..Len(doc.content) |-> TokenAcronymAt(doc, i)])

\* _extract_title_terms
extract_title_terms(title) ==
    IF title = <<>> THEN {}
    ELSE {normalise_text(tok.lemma) : tok \in {t \in Range(title) : ~t.is_stop}} \ {None}

\* the words of a keyword's phrase that are counted separately
KeywordWords(phrase) ==
    IF " " \in Range(phrase)
    THEN FilterNone([j \in 1..Len(StrSplit(phrase)) |-> normalise_text(StrSplit(phrase)[j])])
    ELSE <<>>

\* the terms one keyword adds to doc_terms, _llm_hits and local_tf
KeywordTerms(keyword) ==
    LET phrase == normalise_phrase(keyword)
    IN  IF phrase # None THEN <<phrase>> \o KeywordWords(phrase) ELSE <<>>

\* faulty variant: the acronym flag is passed on to the words of the phrase
KeywordAcronyms_Words(keyword) ==
    LET is_acronym == StrIsUpper(keyword) /\ Len(keyword) > 1
        phrase == normalise_phrase(keyword)
    IN  IF phrase # None /\ is_acronym THEN <<phrase>> \o KeywordWords(phrase) ELSE <<>>

\* the terms whose _acronym_hits one keyword increments
KeywordAcronyms(keyword) ==
    LET is_acronym == StrIsUpper(keyword) /\ Len(keyword) > 1
        phrase == normalise_phrase(keyword)
    IN  IF phrase # None /\ is_acronym THEN <<phrase>> ELSE <<>>

LlmTerms(doc) == Concat([k \in 1..Len(doc.llm_keywords) |-> KeywordTerms(doc.llm_keywords[k])])

LlmAcronyms(doc) ==
    Concat([k \in 1..Len(doc.llm_keywords) |-> KeywordAcronyms(doc.llm_keywords[k])])

TitleTermSeq(doc) == SortedSeq(extract_title_terms(doc.title))

\* every local_tf[term] += 1 of one call, in order
LocalOccurrences(doc) ==
    ChunkTerms(doc) \o TokenTerms(doc) \o TitleTermSeq(doc) \o LlmTerms(doc)

LocalTf(doc) == AddAll(EmptyCounter, LocalOccurrences(doc))

\* faulty variant: the title terms are left out of doc_terms
DocTerms_NoTitle(doc) ==
    Range(ChunkTerms(doc)) \cup Range(TokenTerms(doc)) \cup Range(LlmTerms(doc))

\* every doc_terms.add(term) of one call
DocTerms(doc) ==
    Range(ChunkTerms(doc)) \cup Range(TokenTerms(doc))
        \cup extract_title_terms(doc.title) \cup Range(LlmTerms(doc))

\* faulty variant: the document frequency is set to 1 instead of incremented
CommitDf_Set(df, doc_terms) ==
    [t \in DOMAIN df \cup doc_terms |-> IF t \in doc_terms THEN 1 ELSE df[t]]

\* for term in doc_terms: self._df[term] += 1
CommitDf(df, doc_terms) ==
    [t \in DOMAIN df \cup doc_terms |-> Get(df, t) + (IF t \in doc_terms THEN 1 ELSE 0)]

\* faulty variant: the frequency is assigned instead of added
CommitTf_Assign(tf, local_tf) ==
    [t \in DOMAIN tf \cup DOMAIN local_tf |->
        IF t \in DOMAIN local_tf THEN local_tf[t] ELSE tf[t]]

\* for term, freq in local_tf.items(): self._tf[term] += freq
CommitTf(tf, local_tf) ==
    [t \in DOMAIN tf \cup DOMAIN local_tf |-> Get(tf, t) + Get(local_tf, t)]

\* faulty variant: a document without title is skipped, one without content is not
SkipsDocument_Title(doc) == doc.title = <<>>

\* the guard "if not content: return"
SkipsDocument(doc) == doc.content = <<>>

\* What one call computes from its arguments alone, before it touches the
\* counters: the guard, doc_terms, local_tf and the terms whose title, LLM
\* and acronym counters it increments (one entry per increment).
Analysis(doc) ==
    [skip |-> SkipsDocument(doc),
     doc_terms |-> DocTerms(doc),
     local_tf |-> LocalTf(doc),
     title_terms |-> TitleTermSeq(doc),
     llm_terms |-> LlmTerms(doc),
     acronym_terms |-> TokenAcronyms(doc) \o LlmAcronyms(doc)]

\* faulty variant: the acronym counter is rebuilt from the document alone
consume_document_AcronymReset(e, a) ==
    IF a.skip THEN e
    ELSE [alive |-> TRUE,
          doc_count |-> e.doc_count + 1,
          df |-> CommitDf(e.df, a.doc_terms),
          tf |-> CommitTf(e.tf, a.local_tf),
          title_hits |-> AddAll(e.title_hits, a.title_terms),
          llm_hits |-> AddAll(e.llm_hits, a.llm_terms),
          acronym_hits |-> AddAll(EmptyCounter, a.acronym_terms)]

\* consume_document, given the analysis of its arguments
consume_document(e, a) ==
    IF a.skip THEN e
    ELSE [alive |-> TRUE,
          doc_count |-> e.doc_count + 1,
          df |-> CommitDf(e.df, a.doc_terms),
          tf |-> CommitTf(e.tf, a.local_tf),
          title_hits |-> AddAll(e.title_hits, a.title_terms),
          llm_hits |-> AddAll(e.llm_hits, a.llm_terms),
          acronym_hits |-> AddAll(e.acronym_hits, a.acronym_terms)]

(***************************************************************************)
(* dump: the two artifacts.  The JSON object is kept as a record and a     *)
(* JSON member as a field: json.dumps followed by json.load gives back the *)
(* same str keys, ints and booleans.  An idf value                         *)
(* log((doc_count + 1) / (df + 1)) + 1.0 is kept as the pair               *)
(* <<doc_count + 1, df + 1>> it is computed from.                          *)
(***************************************************************************)
DefaultMinDf == 2

StrongTerms(e, min_df) ==
    {t \in DOMAIN e.df : e.df[t] >= min_df /\ Get(e.tf, t) >= min_df}

\* faulty variant: the threshold is inclusive
StopTerms_Inclusive(e) ==
    {t \in DOMAIN e.df : e.doc_count # 0 /\ e.df[t] * StopDen >= StopNum * e.doc_count}

\* df / doc_count > 0.85 in double arithmetic.  The quotient is the double
\* nearest to df/doc_count and 0.85 is the double nearest to 17/20, and two
\* distinct fractions with denominators far below 2^26 round to distinct
\* doubles in the same order, so the comparison is that of the fractions.
StopTerms(e) ==
    {t \in DOMAIN e.df : e.doc_count # 0 /\ e.df[t] * StopDen > StopNum * e.doc_count}

TermMeta(e, t) ==
    [title_hits |-> Get(e.title_hits, t),
     llm_hits |-> Get(e.llm_hits, t),
     tf |-> Get(e.tf, t),
     df |-> Get(e.df, t),
     is_acronym |-> Get(e.acronym_hits, t) # 0]

DumpPayload(e, min_df) ==
    [doc_count |-> e.doc_count,
     idf |-> [t \in StrongTerms(e, min_df) |-> <<e.doc_count + 1, Get(e.df, t) + 1>>],
     meta |-> [t \in StrongTerms(e, min_df) |-> TermMeta(e, t)],
     stop_terms |-> SortedSeq(StopTerms(e))]

\* the lines "term tf" of symspell_dictionary.txt
SymspellLines(e, min_df) ==
    LET terms == SortedSeq(StrongTerms(e, min_df))
    IN  [i \in 1..Len(terms) |-> <<terms[i], Get(e.tf, terms[i])>>]

Absent == [kind |-> "absent"]
Garbage == [kind |-> "garbage"]      \* a file json.load cannot parse
JsonFile(data) == [kind |-> "json", data |-> data]

(***************************************************************************)
(* load.  Every exception of the body leaves load without a return value.  *)
(***************************************************************************)
MetaFields == {"df", "tf", "title_hits", "llm_hits", "is_acronym"}

\* json.load raises, or one of the subscripts data[...] / meta[...] does
LoadRaises(file) ==
    /\ file.kind # "absent"
    /\ \/ file.kind = "garbage"
       \/ "doc_count" \notin DOMAIN file.data
       \/ "meta" \notin DOMAIN file.data
       \/ \E t \in DOMAIN file.data.meta : ~(MetaFields \subseteq DOMAIN file.data.meta[t])

\* faulty variant: the acronym counter is not restored
LoadedEngine_NoAcronym(data) ==
    [alive |-> TRUE,
     doc_count |-> data.doc_count,
     df |-> [t \in DOMAIN data.meta |-> data.meta[t].df],
     tf |-> [t \in DOMAIN data.meta |-> data.meta[t].tf],
     title_hits |-> [t \in DOMAIN data.meta |-> data.meta[t].title_hits],
     llm_hits |-> [t \in DOMAIN data.meta |-> data.meta[t].llm_hits],
     acronym_hits |-> EmptyCounter]

\* the instance after the loop over data["meta"]
LoadedEngine(data) ==
    [alive |-> TRUE,
     doc_count |-> data.doc_count,
     df |-> [t \in DOMAIN data.meta |-> data.meta[t].df],
     tf |-> [t \in DOMAIN data.meta |-> data.meta[t].tf],
     title_hits |-> [t \in DOMAIN data.meta |-> data.meta[t].title_hits],
     llm_hits |-> [t \in DOMAIN data.meta |-> data.meta[t].llm_hits],
     acronym_hits |-> [t \in {u \in DOMAIN data.meta : data.meta[u].is_acronym} |-> 1]]

\* faulty variant: an exception is swallowed and the fresh instance returned
load_Swallow(file) ==
    IF file.kind = "absent" THEN NewEngine
    ELSE IF LoadRaises(file) THEN NewEngine
    ELSE LoadedEngine(file.data)

\* the value load returns; NoEngine when it raises
load(file) ==
    IF file.kind = "absent" THEN NewEngine
    ELSE IF LoadRaises(file) THEN NoEngine
    ELSE LoadedEngine(file.data)

(***************************************************************************)
(* The documents of the model, as the NLP pipeline presents them.          *)
(***************************************************************************)
Tok(text, lemma, stop, punct, num) ==
    [text |-> text, lemma |-> lemma, is_stop |-> stop, is_punct |-> punct, like_num |-> num]

Word(text, lemma) == Tok(text, lemma, FALSE, FALSE, FALSE)

Chunk(first, last_, lemma) == [first |-> first, last |-> last_, lemma |-> lemma]

Document(title, content, chunks, llm_keywords) ==
    [title |-> title, content |-> content, chunks |-> chunks, llm_keywords |-> llm_keywords]

sAPI == <<"A","P","I">>
sNASA == <<"N","A","S","A">>
sThe == <<"T","h","e">>
sthe == <<"t","h","e">>
sServers == <<"S","e","r","v","e","r","s">>
sservers == <<"s","e","r","v","e","r","s">>
sserver == <<"s","e","r","v","e","r">>
sCRASH == <<"C","R","A","S","H">>
scrash == <<"c","r","a","s","h">>
sand == <<"a","n","d">>
sgateway == <<"g","a","t","e","w","a","y">>
suses == <<"u","s","e","s">>
suse == <<"u","s","e">>
sok == <<"o","k">>
sLoad == <<"L","o","a","d">>
sload == <<"l","o","a","d">>
sDot == <<".">>
s42 == <<"4","2">>
sAPIKEY == <<"A","P","I"," ","K","E","Y">>
sLoadBalancer == <<"L","o","a","d"," "," ","B","a","l","a","n","c","e","r"," ">>
sk8scluster == <<"k","8","s"," ","c","l","u","s","t","e","r">>

\* title "API", content "The API gateway uses NASA": the noun chunks are
\* "The API gateway" and "NASA"
DocApi ==
    Document(<<Word(sAPI, sAPI)>>,
             <<Tok(sThe, sthe, TRUE, FALSE, FALSE), Word(sAPI, sAPI),
               Word(sgateway, sgateway), Word(suses, suse), Word(sNASA, sNASA)>>,
             <<Chunk(1, 3, sthe \o <<" ">> \o sAPI \o <<" ">> \o sgateway),
               Chunk(5, 5, sNASA)>>,
             <<>>)

\* title "Servers", content "Servers CRASH": the verb is in no noun chunk
DocCrashUpper ==
    Document(<<Word(sServers, sserver)>>,
             <<Word(sServers, sserver), Word(sCRASH, scrash)>>,
             <<Chunk(1, 1, sserver)>>,
             <<>>)

\* content "servers crash and crash 42 ."
DocCrashLower ==
    Document(<<>>,
             <<Word(sservers, sserver), Word(scrash, scrash),
               Tok(sand, sand, TRUE, FALSE, FALSE), Word(scrash, scrash),
               Tok(s42, s42, FALSE, FALSE, TRUE), Tok(sDot, sDot, FALSE, TRUE, FALSE)>>,
             <<Chunk(1, 1, sserver)>>,
             <<>>)

\* empty content, with a title and a keyword
DocEmpty ==
    Document(<<Word(sAPI, sAPI)>>, <<>>, <<>>, <<sAPIKEY>>)

\* title "Load the", content "ok", six keywords
DocKeywords ==
    Document(<<Word(sLoad, sload), Tok(sthe, sthe, TRUE, FALSE, FALSE)>>,
             <<Word(sok, sok)>>,
             <<>>,
             <<sAPIKEY, sNASA, sLoadBalancer, sk8scluster, s42, sok>>)

Docs == <<DocApi, DocCrashUpper, DocCrashLower, DocEmpty, DocKeywords>>

DocAnalysis == [i \in 1..Len(Docs) |-> Analysis(Docs[i])]

(***************************************************************************)
(* The state machine: a caller that holds one collector and the target     *)
(* directory it dumps to and loads from.                                   *)
(***************************************************************************)
NoSnap == [valid |-> FALSE, engine |-> NewEngine, min_df |-> 0, written |-> [kind |-> "absent"]]

Op(op, doc, min_df) == [op |-> op, doc |-> doc, min_df |-> min_df]

\* no thread is inside consume_document
NoCalls ==
    /\ calls = <<>>
    /\ overlapped = FALSE

\* the result dictionary extract_structured_content starts from
NoResult == [text |-> <<>>, tables |-> <<>>, lists |-> <<>>]

\* no page is being extracted
NoExtraction ==
    /\ soup = <<>>
    /\ content_parts = <<>>
    /\ result = NoResult

\* no run of the script has begun
NoCrawl ==
    /\ site = <<>>
    /\ cache_file = [kind |-> "absent"]
    /\ TIKI_URLS = <<>>
    /\ cursor = 0
    /\ index = <<>>
    /\ owed = {}
    /\ fetched = {}
    /\ nRuns = 0
    /\ nEdits = 0

\* the files hold what the last dump wrote
FilesIntact ==
    /\ snap.valid
    /\ stats = snap.written

Init ==
    /\ NoCalls
    /\ NoExtraction
    /\ NoCrawl
    /\ engine = NewEngine
    /\ stats = Absent
    /\ symspell = Absent
    /\ ref = NewEngine
    /\ snap = NoSnap
    /\ resumed = TRUE
    /\ last = Op("init", 0, 0)
    /\ nConsumed = 0

\* engine.consume_document(title=..., content=..., llm_keywords=...), while
\* fewer than max calls were made
ConsumeUpTo(i, max) ==
    /\ engine.alive
    /\ nConsumed < max
    /\ engine' = consume_document(engine, DocAnalysis[i])
    /\ ref' = consume_document(ref, DocAnalysis[i])
    /\ nConsumed' = nConsumed + 1
    /\ last' = Op("consume", i, 0)
    /\ UNCHANGED <<stats, symspell, snap, resumed>>
    /\ UNCHANGED <<raceVars, scraperVars, pageVars>>

Consume(i) == ConsumeUpTo(i, MaxConsume)

\* engine.dump(target_dir, min_df=m)
Dump(m) ==
    /\ engine.alive
    /\ stats' = JsonFile(DumpPayload(engine, m))
    /\ symspell' = [kind |-> "lines", lines |-> SymspellLines(engine, m)]
    /\ snap' = [valid |-> TRUE, engine |-> engine, min_df |-> m, written |-> stats']
    /\ last' = Op("dump", 0, m)
    /\ UNCHANGED <<engine, ref, resumed, nConsumed>>
    /\ UNCHANGED <<raceVars, scraperVars, pageVars>>

\* engine = DomainKeywordCollector.load(target_dir)
Load ==
    /\ engine' = load(stats)
    /\ resumed' = (/\ resumed
                   /\ engine.alive
                   /\ IF stats.kind = "absent"
                      THEN engine = NewEngine
                      ELSE FilesIntact /\ snap.engine = engine /\ snap.min_df = DefaultMinDf)
    /\ last' = Op("load", 0, 0)
    /\ UNCHANGED <<stats, symspell, ref, snap, nConsumed>>
    /\ UNCHANGED <<raceVars, scraperVars, pageVars>>

\* the object with member k removed
Without(obj, k) == [x \in DOMAIN obj \ {k} |-> obj[x]]

\* the snapshot file is damaged after dump wrote it
Corrupt ==
    /\ last.op = "dump"
    /\ FilesIntact
    /\ \/ stats' = Garbage
       \/ \E k \in DOMAIN stats.data : stats' = JsonFile(Without(stats.data, k))
       \/ \E t \in DOMAIN stats.data.meta : \E f \in MetaFields :
              stats' = JsonFile([stats.data EXCEPT !.meta[t] = Without(@, f)])
    /\ last' = Op("corrupt", 0, 0)
    /\ UNCHANGED <<engine, symspell, ref, snap, resumed, nConsumed>>
    /\ UNCHANGED <<raceVars, scraperVars, pageVars>>

\* the target directory is emptied
Remove ==
    /\ stats.kind # "absent"
    /\ stats' = Absent
    /\ symspell' = Absent
    /\ last' = Op("remove", 0, 0)
    /\ UNCHANGED <<engine, ref, snap, resumed, nConsumed>>
    /\ UNCHANGED <<raceVars, scraperVars, pageVars>>

\* the collector in use: consume, dump and load in any order
Next ==
    \/ \E i \in 1..Len(Docs) : Consume(i)
    \/ \E m \in 1..MaxMinDf : Dump(m)
    \/ Load

Spec == Init /\ [][Next]_vars

\* the same with a target directory that is damaged or emptied between a
\* dump and the next load
NextFiles ==
    \/ \E i \in 1..Len(Docs) : ConsumeUpTo(i, MaxFilesConsume)
    \/ \E m \in 1..MaxMinDf : Dump(m)
    \/ Load
    \/ Corrupt
    \/ Remove

SpecFiles == Init /\ [][NextFiles]_vars

(***************************************************************************)
(* A collector that has already consumed a large corpus.                   *)
(***************************************************************************)
\* n calls of consume_document with the same arguments
RECURSIVE ConsumeTimes(_, _, _)
ConsumeTimes(e, a, n) ==
    IF n = 0 THEN e ELSE ConsumeTimes(consume_document(e, a), a, n - 1)

\* 20 documents: 3 times DocApi and 17 times DocCrashLower, so that "crash"
\* is in 17 of 20
CorpusOf20 == ConsumeTimes(ConsumeTimes(NewEngine, DocAnalysis[1], 3), DocAnalysis[3], 17)

\* 100 documents: 10 times DocKeywords, 10 times DocCrashLower and 80 times
\* DocApi, so that "api" is in 90 and "use" in 80 of 100
CorpusOf10 == ConsumeTimes(NewEngine, DocAnalysis[5], 10)
CorpusOf20b == ConsumeTimes(CorpusOf10, DocAnalysis[3], 10)
CorpusOf40 == ConsumeTimes(CorpusOf20b, DocAnalysis[1], 20)
CorpusOf60 == ConsumeTimes(CorpusOf40, DocAnalysis[1], 20)
CorpusOf80 == ConsumeTimes(CorpusOf60, DocAnalysis[1], 20)
CorpusOf100 == ConsumeTimes(CorpusOf80, DocAnalysis[1], 20)

CorpusEngines == {NewEngine, CorpusOf20, CorpusOf100}

InitCorpus ==
    /\ NoCalls
    /\ NoExtraction
    /\ NoCrawl
    /\ engine \in CorpusEngines
    /\ stats = Absent
    /\ symspell = Absent
    /\ ref = engine
    /\ snap = NoSnap
    /\ resumed = TRUE
    /\ last = Op("init", 0, 0)
    /\ nConsumed = 0

NextCorpus ==
    \/ \E i \in 1..Len(Docs) : ConsumeUpTo(i, MaxCorpusConsume)
    \/ \E m \in 1..MaxMinDf : Dump(m)
    \/ Load

SpecCorpus == InitCorpus /\ [][NextCorpus]_vars

(***************************************************************************)
(* Two threads call consume_document on the one collector without a lock.  *)
(* An augmented assignment  self._df[term] += 1  is a load of the old      *)
(* value followed by a store of the sum, and the interpreter may switch    *)
(* threads between the two.  Everything else a call computes (doc_terms,   *)
(* local_tf, the NLP result) is local to the call.                         *)
(***************************************************************************)
Threads == {1, 2}

CounterOp(counter, term, n) == [counter |-> counter, term |-> term, n |-> n]

\* one entry per increment of the sequence terms, on the given counter
HitOps(counter, terms) == [i \in 1..Len(terms) |-> CounterOp(counter, terms[i], 1)]

\* for term in doc_terms: self._df[term] += 1
DfOps(doc_terms) == HitOps("df", SortedSeq(doc_terms))

\* for term, freq in local_tf.items(): self._tf[term] += freq
TfOps(local_tf) ==
    LET terms == SortedSeq(DOMAIN local_tf)
    IN  [i \in 1..Len(terms) |-> CounterOp("tf", terms[i], local_tf[terms[i]])]

\* faulty variant: the call never adds to the term frequencies
CallOps_NoTf(a) ==
    IF a.skip THEN <<>>
    ELSE <<CounterOp("doc_count", None, 1)>>
         \o HitOps("acronym_hits", a.acronym_terms)
         \o HitOps("title_hits", a.title_terms)
         \o HitOps("llm_hits", a.llm_terms)
         \o DfOps(a.doc_terms)

\* The increments one call makes on the shared counters, in program order.
\* The increments of the hit counters are listed counter by counter; a call
\* that returns at the guard makes none.
CallOps(a) ==
    IF a.skip THEN <<>>
    ELSE <<CounterOp("doc_count", None, 1)>>
         \o HitOps("acronym_hits", a.acronym_terms)
         \o HitOps("title_hits", a.title_terms)
         \o HitOps("llm_hits", a.llm_terms)
         \o DfOps(a.doc_terms)
         \o TfOps(a.local_tf)

DocOps == [i \in 1..Len(Docs) |-> CallOps(DocAnalysis[i])]

\* the load half of an augmented assignment
ReadOf(e, op) ==
    IF op.counter = "doc_count" THEN e.doc_count ELSE Get(e[op.counter], op.term)

\* the store half of an augmented assignment
WriteOf(e, op, v) ==
    IF op.counter = "doc_count"
    THEN [e EXCEPT !.doc_count = v]
    ELSE [e EXCEPT ![op.counter] =
              [u \in DOMAIN @ \cup {op.term} |-> IF u = op.term THEN v ELSE @[u]]]

\* the documents whose call makes at most MaxCallOps increments
RaceDocs == {i \in 1..Len(Docs) : Len(DocOps[i]) <= MaxCallOps}

NewCall(i) == [doc |-> i, status |-> "idle", next |-> 1, loaded |-> FALSE, reg |-> 0]

CurrentOp(t) == DocOps[calls[t].doc][calls[t].next]

InitRace ==
    /\ engine = NewEngine
    /\ stats = Absent
    /\ symspell = Absent
    /\ ref = NewEngine
    /\ snap = NoSnap
    /\ resumed = TRUE
    /\ last = Op("init", 0, 0)
    /\ nConsumed = 0
    /\ calls \in [Threads -> {NewCall(i) : i \in RaceDocs}]
    /\ overlapped = FALSE
    /\ NoExtraction
    /\ NoCrawl

\* thread t enters consume_document and passes the guard on content
Call(t) ==
    /\ calls[t].status = "idle"
    /\ calls' = [calls EXCEPT ![t].status =
                     IF DocOps[calls[t].doc] = <<>> THEN "done" ELSE "running"]
    /\ overlapped' = (overlapped \/ \E u \in Threads \ {t} : calls[u].status = "running")
    /\ ref' = consume_document(ref, DocAnalysis[calls[t].doc])
    /\ nConsumed' = nConsumed + 1
    /\ UNCHANGED <<engine, stats, symspell, snap, resumed, last, scraperVars, pageVars>>

\* thread t loads the counter of its next increment
ReadCounter(t) ==
    /\ calls[t].status = "running"
    /\ ~calls[t].loaded
    /\ calls' = [calls EXCEPT ![t].loaded = TRUE, ![t].reg = ReadOf(engine, CurrentOp(t))]
    /\ UNCHANGED <<collectorVars, overlapped, scraperVars, pageVars>>

\* thread t stores the sum and moves to its next increment, or returns
WriteCounter(t) ==
    /\ calls[t].status = "running"
    /\ calls[t].loaded
    /\ engine' = WriteOf(engine, CurrentOp(t), calls[t].reg + CurrentOp(t).n)
    /\ calls' = [calls EXCEPT ![t].loaded = FALSE, ![t].reg = 0, ![t].next = @ + 1,
                              ![t].status = IF calls[t].next = Len(DocOps[calls[t].doc])
                                            THEN "done" ELSE "running"]
    /\ UNCHANGED <<stats, symspell, ref, snap, resumed, last, nConsumed,
                   overlapped, scraperVars, pageVars>>

NextRace ==
    \E t \in Threads : Call(t) \/ ReadCounter(t) \/ WriteCounter(t)

SpecRace == InitRace /\ [][NextRace]_vars

(***************************************************************************)
(* The page scraper (src/scrape.py, class WebScraper).                     *)
(*                                                                         *)
(* A node of the parsed page is a record: a string of the page has the     *)
(* name "#text" and its characters in text; a tag has its name, its href   *)
(* attribute (<<>> when it has none, <<value>> otherwise) and its          *)
(* children in document order.  Two nodes are equal as values exactly when *)
(* BeautifulSoup's Tag.__eq__ and __hash__ call them equal: same name,     *)
(* same attributes, equal children.  The place of a node in the page is    *)
(* its path, the child indices leading to it from the container.           *)
(***************************************************************************)
NavigableString(text) == [name |-> "#text", href |-> <<>>, text |-> text, children |-> <<>>]

Tag(name, children) == [name |-> name, href |-> <<>>, text |-> <<>>, children |-> children]

\* <a href="href">children</a>
Link(href, children) == [name |-> "a", href |-> <<href>>, text |-> <<>>, children |-> children]

\* hasattr(element, 'name')
HasName(element) == element.name # "#text"

ListNames == {"ul", "ol"}
HeadingNames == {"p", "h1", "h2", "h3", "h4", "h5", "h6"}

\* element.descendants: every node below the element, in document order
RECURSIVE Descendants(_)
Descendants(element) ==
    Concat([i \in 1..Len(element.children) |->
               <<element.children[i]>> \o Descendants(element.children[i])])

\* element.find_all(names)
find_all(element, names) == SelectSeq(Descendants(element), LAMBDA d : d.name \in names)

\* element.find_all(names, recursive=False)
find_all_children(element, names) == SelectSeq(element.children, LAMBDA d : d.name \in names)

\* element.find_all('a', href=True)
find_all_links(element) ==
    SelectSeq(Descendants(element), LAMBDA d : d.name = "a" /\ d.href # <<>>)

\* element.get_text(strip=True): the strings below the element, each one
\* stripped, the empty ones left out, joined without separator
get_text(element) ==
    LET nodes == <<element>> \o Descendants(element)
    IN  Concat([i \in 1..Len(nodes) |->
                   IF HasName(nodes[i]) THEN <<>> ELSE StrStrip(nodes[i].text)])

\* the element after decompose() of every tag below it with one of the names
RECURSIVE Decomposed(_, _)
Decomposed(element, names) ==
    LET kept == SelectSeq(element.children, LAMBDA d : d.name \notin names)
    IN  [element EXCEPT !.children = [i \in 1..Len(kept) |-> Decomposed(kept[i], names)]]

\* sep.join(parts)
RECURSIVE Join(_, _)
Join(sep, parts) ==
    IF parts = <<>> THEN <<>>
    ELSE IF Len(parts) = 1 THEN parts[1]
    ELSE parts[1] \o sep \o Join(sep, Tail(parts))

StartsWith(s, prefix) ==
    /\ Len(s) >= Len(prefix)
    /\ SubSeq(s, 1, Len(prefix)) = prefix

sHttp == <<"h","t","t","p",":","/","/">>
sHttps == <<"h","t","t","p","s",":","/","/">>

\* self.base_url
base_url == sHttps \o <<"k","b","/","w","/","H">>

\* the index of the last "/" of s, 0 when it has none
LastSlash(s) ==
    LET at == {i \in 1..Len(s) : s[i] = "/"}
    IN  IF at = {} THEN 0 ELSE CHOOSE i \in at : \A j \in at : j <= i

\* urllib.parse.urljoin(base, url) for a url that is empty or a relative path
\* without scheme, leading "/", dot segment, query or fragment: the url
\* replaces the last path segment of the base
urljoin(base, url) ==
    IF url = <<>> THEN base ELSE SubSeq(base, 1, LastSlash(base)) \o url

\* the href of a link made absolute: "if href and not href.startswith(...)"
AbsoluteHref(link) ==
    LET href == link.href[1]
    IN  IF href # <<>> /\ ~StartsWith(href, sHttp) /\ ~StartsWith(href, sHttps)
        THEN urljoin(base_url, href)
        ELSE href

(***************************************************************************)
(* The list extractor and its rendering.  An item is the dictionary the    *)
(* code builds; nested_list is <<>> for None and <<list_data>> otherwise.  *)
(***************************************************************************)
\* the entry of direct_links for one link of li_copy
DirectLink(link) ==
    LET absolute_href == AbsoluteHref(link)
        link_text == get_text(link)
    IN  [text |-> IF link_text = <<>> THEN absolute_href ELSE link_text,
         href |-> absolute_href]

RECURSIVE _process_list_items(_)
\* faulty variant: the links inside the nested lists are taken as well
ItemData_AllLinks(li) ==
    LET nested_lists == find_all_children(li, ListNames)
        li_copy == Decomposed(li, ListNames)
        links == find_all_links(li)
    IN  [text |-> get_text(Decomposed(li_copy, {"a"})),
         links |-> [i \in 1..Len(links) |-> DirectLink(links[i])],
         nested_list |->
             IF nested_lists = <<>> THEN <<>>
             ELSE <<[list_type |-> nested_lists[1].name,
                     items |-> _process_list_items(nested_lists[1])]>>]

\* item_data of one li
ItemData(li) ==
    LET nested_lists == find_all_children(li, ListNames)
        li_copy == Decomposed(li, ListNames)
        links == find_all_links(li_copy)
    IN  [text |-> get_text(Decomposed(li_copy, {"a"})),
         links |-> [i \in 1..Len(links) |-> DirectLink(links[i])],
         nested_list |->
             IF nested_lists = <<>> THEN <<>>
             ELSE <<[list_type |-> nested_lists[1].name,
                     items |-> _process_list_items(nested_lists[1])]>>]

_process_list_items(list_elem) ==
    LET lis == find_all_children(list_elem, {"li"})
    IN  [i \in 1..Len(lis) |-> ItemData(lis[i])]



(***************************************************************************)
(* Properties.                                                             *)
(***************************************************************************)
\* every term one of the five counters of e holds
AllTerms(e) ==
    DOMAIN e.df \cup DOMAIN e.tf \cup DOMAIN e.title_hits
        \cup DOMAIN e.llm_hits \cup DOMAIN e.acronym_hits

IsAcronym(e, t) == Get(e.acronym_hits, t) > 0

\* docCount and, for every term, df, tf, titleHits, llmHits and isAcronym agree
SameRecord(e1, e2, t) ==
    /\ Get(e1.df, t) = Get(e2.df, t)
    /\ Get(e1.tf, t) = Get(e2.tf, t)
    /\ Get(e1.title_hits, t) = Get(e2.title_hits, t)
    /\ Get(e1.llm_hits, t) = Get(e2.llm_hits, t)
    /\ IsAcronym(e1, t) = IsAcronym(e2, t)

SameStatistics(e1, e2) ==
    /\ e1.doc_count = e2.doc_count
    /\ \A t \in AllTerms(e1) \cup AllTerms(e2) : SameRecord(e1, e2, t)

\* C1: in every state reachable from a fresh engine by consume calls, with
\* dump and load between them, every term has df <= doc_count and df <= tf.
C1_DfBounded ==
    engine.alive =>
        \A t \in AllTerms(engine) :
            /\ Get(engine.df, t) <= engine.doc_count
            /\ Get(engine.df, t) <= Get(engine.tf, t)

\* a consume after a load that lost documents, with a term in every document
C1_Witness ==
    /\ last.op = "consume"
    /\ snap.valid
    /\ engine # ref
    /\ engine.doc_count >= 2
    /\ \E t \in DOMAIN engine.df :
           engine.df[t] = engine.doc_count /\ engine.tf[t] > engine.df[t]

\* C2 (as claimed): consuming D1..Dk, dumping with the default min_df,
\* loading the dump and consuming Dk+1..Dn leaves the statistics of an
\* engine that consumed D1..Dn without interruption.
C2_ResumeEqualsUninterrupted ==
    (resumed /\ engine.alive) => SameStatistics(engine, ref)

\* C3: load of the snapshot dump wrote gives the docCount of the dumped
\* engine and, for every strong term, its df, tf, titleHits, llmHits and
\* isAcronym; exactly the terms that are not strong are absent.
C3_RoundTrip ==
    (last.op = "load" /\ FilesIntact) =>
        /\ engine.alive
        /\ engine.doc_count = snap.engine.doc_count
        /\ \A t \in AllTerms(snap.engine) \cup AllTerms(engine) :
               IF Get(snap.engine.df, t) >= snap.min_df
                  /\ Get(snap.engine.tf, t) >= snap.min_df
               THEN t \in DOMAIN engine.df /\ SameRecord(engine, snap.engine, t)
               ELSE t \notin DOMAIN engine.df /\ SameRecord(engine, NewEngine, t)

\* a load that kept a strong acronym term and dropped a term that is not strong
C3_Witness ==
    /\ last.op = "load"
    /\ FilesIntact
    /\ \E t \in DOMAIN engine.df : IsAcronym(engine, t) /\ engine.tf[t] > engine.df[t]
    /\ \E t \in DOMAIN snap.engine.df : t \notin DOMAIN engine.df

\* the keywords of doc whose phrase normalisation is t
PhraseKeywords(doc, t) ==
    {k \in 1..Len(doc.llm_keywords) : normalise_phrase(doc.llm_keywords[k]) = t}

\* the words of the phrase of keyword k, when the phrase has several words
WordsOfKeyword(doc, k) ==
    LET phrase == normalise_phrase(doc.llm_keywords[k])
    IN  IF phrase # None /\ Len(StrSplit(phrase)) > 1 THEN StrSplit(phrase) ELSE <<>>

\* the words, of phrases of several words, that token normalisation maps to
\* t, as pairs <<keyword, position>>
PhraseWords(doc, t) ==
    UNION {{<<k, j>> : j \in {n \in 1..Len(WordsOfKeyword(doc, k)) :
                                 normalise_text(WordsOfKeyword(doc, k)[n]) = t}} :
           k \in 1..Len(doc.llm_keywords)}

\* the content token i lies in no noun chunk
Uncovered(doc, i) ==
    \A c \in 1..Len(doc.chunks) : i < doc.chunks[c].first \/ i > doc.chunks[c].last

\* the content tokens outside the noun chunks that are upper-case and have term t
UpperTokens(doc, t) ==
    {i \in 1..Len(doc.content) :
        /\ Uncovered(doc, i)
        /\ normalise_token(doc.content[i]) = t
        /\ StrIsUpper(doc.content[i].text) /\ Len(doc.content[i].text) > 1}

\* every term a normaliser makes of a text of the document
Candidates(doc) ==
    ({normalise_text(doc.content[i].lemma) : i \in 1..Len(doc.content)}
        \cup {normalise_text(doc.title[i].lemma) : i \in 1..Len(doc.title)}
        \cup {normalise_text(doc.chunks[i].lemma) : i \in 1..Len(doc.chunks)}
        \cup {normalise_phrase(doc.llm_keywords[k]) : k \in 1..Len(doc.llm_keywords)}
        \cup UNION {{normalise_text(WordsOfKeyword(doc, k)[j]) :
                        j \in 1..Len(WordsOfKeyword(doc, k))} :
                    k \in 1..Len(doc.llm_keywords)}) \ {None}

\* the local occurrence count of t: its noun chunks, its tokens outside the
\* noun chunks, its presence in the title and its keyword phrases and words
Occurrences(doc, t) ==
    Cardinality({c \in 1..Len(doc.chunks) : normalise_text(doc.chunks[c].lemma) = t})
    + Cardinality({i \in 1..Len(doc.content) :
                      Uncovered(doc, i) /\ normalise_token(doc.content[i]) = t})
    + (IF \E i \in 1..Len(doc.title) :
              ~doc.title[i].is_stop /\ normalise_text(doc.title[i].lemma) = t
       THEN 1 ELSE 0)
    + Cardinality(PhraseKeywords(doc, t)) + Cardinality(PhraseWords(doc, t))

\* what a consume call of doc is expected to add for term t
ExpectedFor(doc, t) ==
    [in_term_set |-> Occurrences(doc, t) > 0,
     occurrences |-> Occurrences(doc, t),
     llm |-> Cardinality(PhraseKeywords(doc, t)) + Cardinality(PhraseWords(doc, t)),
     acronym |-> Cardinality(UpperTokens(doc, t))
                    + Cardinality({k \in PhraseKeywords(doc, t) :
                          StrIsUpper(doc.llm_keywords[k]) /\ Len(doc.llm_keywords[k]) > 1})]

Expected ==
    [i \in 1..Len(Docs) |-> [t \in Candidates(Docs[i]) |-> ExpectedFor(Docs[i], t)]]

ExpectedAt(i, t) ==
    IF t \in DOMAIN Expected[i] THEN Expected[i][t]
    ELSE [in_term_set |-> FALSE, occurrences |-> 0, llm |-> 0, acronym |-> 0]

\* C4: a consume call with non-empty content raises df by 1 for the terms of
\* the document's term set and by 0 for the others, raises tf by the local
\* occurrence count of the term, and no consume call lowers a df or a tf.
C4_CommitStep ==
    [][last'.op = "consume" =>
          \A t \in AllTerms(engine) \cup AllTerms(engine') :
              /\ Get(engine'.df, t) >= Get(engine.df, t)
              /\ Get(engine'.tf, t) >= Get(engine.tf, t)
              /\ Docs[last'.doc].content # <<>> =>
                    /\ Get(engine'.df, t) - Get(engine.df, t)
                           = (IF ExpectedAt(last'.doc, t).in_term_set THEN 1 ELSE 0)
                    /\ Get(engine'.tf, t) - Get(engine.tf, t)
                           = ExpectedAt(last'.doc, t).occurrences]_vars

\* a consumed document that repeats a term the engine already counted
C4_Witness ==
    /\ last.op = "consume"
    /\ \E t \in DOMAIN engine.df :
           /\ ExpectedAt(last.doc, t).occurrences >= 2
           /\ engine.df[t] >= 2
           /\ engine.tf[t] > engine.df[t] + 1

\* C5 (as claimed): after a consume call the acronym flag is set for the
\* term of every content token whose surface form is upper-case and longer
\* than one character, inside a noun chunk or not.
C5_EveryUpperTokenFlagged ==
    (last.op = "consume" /\ engine.alive) =>
        \A i \in 1..Len(Docs[last.doc].content) :
            LET token == Docs[last.doc].content[i]
            IN  (StrIsUpper(token.text) /\ Len(token.text) > 1
                    /\ normalise_token(token) # None)
                    => IsAcronym(engine, normalise_token(token))

\* C6: no consume call clears an acronym flag that is set, and dump writes
\* is_acronym true for every strong term whose flag is set.
C6_AcronymSticky ==
    [][/\ (last'.op = "consume" /\ engine.alive) =>
            \A t \in AllTerms(engine) : IsAcronym(engine, t) => IsAcronym(engine', t)
       /\ last'.op = "dump" =>
            \A t \in AllTerms(engine) :
                (IsAcronym(engine, t) /\ Get(engine.df, t) >= last'.min_df
                    /\ Get(engine.tf, t) >= last'.min_df)
                    => /\ t \in DOMAIN stats'.data.meta
                       /\ stats'.data.meta[t].is_acronym = TRUE]_vars

\* a flagged term that a later document held in a surface form that is not
\* upper-case
C6_Witness ==
    /\ last.op = "consume"
    /\ \E t \in DOMAIN engine.df :
           /\ ExpectedAt(last.doc, t).in_term_set
           /\ ExpectedAt(last.doc, t).acronym = 0
           /\ IsAcronym(engine, t)

\* C7: consume with empty content changes nothing, whatever the title and
\* the keywords; consume with non-empty content raises doc_count by 1.
C7_EmptyContentNoOp ==
    [][last'.op = "consume" =>
          IF Docs[last'.doc].content = <<>>
          THEN engine' = engine
          ELSE engine'.doc_count = engine.doc_count + 1]_vars

\* an empty document with a title and keywords, consumed by an engine that
\* holds terms of its title
C7_Witness ==
    /\ last.op = "consume"
    /\ Docs[last.doc].content = <<>>
    /\ Docs[last.doc].title # <<>>
    /\ Docs[last.doc].llm_keywords # <<>>
    /\ engine.doc_count >= 1
    /\ \E t \in extract_title_terms(Docs[last.doc].title) : t \in DOMAIN engine.df

\* a is sorted in strictly ascending order
StrictlySorted(a) == \A i \in 1..Len(a) : \A j \in 1..Len(a) : i < j => StrLess(a[i], a[j])

\* C8: the stop_terms dump writes are, in sorted order, exactly the observed
\* terms with df / doc_count > 0.85 = 17/20, strong or not; none when
\* doc_count is 0; a term in 90 of 100 documents is one, a term in 80 of 100
\* is not.
C8_StopTerms ==
    last.op = "dump" =>
        LET stop == stats.data.stop_terms
        IN  /\ StrictlySorted(stop)
            /\ Range(stop) =
                   {t \in AllTerms(engine) :
                       engine.doc_count > 0
                       /\ 20 * Get(engine.df, t) > 17 * engine.doc_count}
            /\ engine.doc_count = 0 => stop = <<>>
            /\ engine.doc_count = 100 =>
                   \A t \in DOMAIN engine.df :
                       /\ engine.df[t] = 90 => t \in Range(stop)
                       /\ engine.df[t] = 80 => t \notin Range(stop)

\* a dump of 100 documents with a term in 90 and a term in 80 of them, and a
\* stop term that is not strong
C8_Witness ==
    /\ last.op = "dump"
    /\ engine.doc_count = 100
    /\ \E t \in DOMAIN engine.df : engine.df[t] = 90 /\ t \in Range(stats.data.stop_terms)
    /\ \E t \in DOMAIN engine.df : engine.df[t] = 80 /\ t \notin Range(stats.data.stop_terms)

\* C9: each keyword with an accepted phrase adds 1 to llm_hits and to the
\* local term frequency of the phrase term and puts it in the term set; each
\* accepted word of a phrase of several words gets the same; an upper-case
\* keyword flags the phrase term and none of its words.
C9_KeywordStep ==
    [][(last'.op = "consume" /\ Docs[last'.doc].content # <<>>) =>
          \A t \in AllTerms(engine) \cup AllTerms(engine') :
              LET expected == ExpectedAt(last'.doc, t)
              IN  /\ Get(engine'.llm_hits, t) - Get(engine.llm_hits, t) = expected.llm
                  /\ Get(engine'.tf, t) - Get(engine.tf, t) >= expected.llm
                  /\ expected.llm > 0 => Get(engine'.df, t) = Get(engine.df, t) + 1
                  /\ Get(engine'.acronym_hits, t) - Get(engine.acronym_hits, t)
                         = expected.acronym]_vars

\* the upper-case keyword "API KEY" was consumed: the phrase is flagged, its
\* words are counted and not flagged, and the rejected word of "k8s cluster"
\* is not counted
C9_Witness ==
    /\ last.op = "consume"
    /\ sAPIKEY \in Range(Docs[last.doc].llm_keywords)
    /\ Docs[last.doc].content # <<>>
    /\ IsAcronym(engine, StrLower(sAPIKEY))
    /\ Get(engine.llm_hits, StrLower(sAPI)) >= 1
    /\ ~IsAcronym(engine, StrLower(sAPI))
    /\ Get(engine.llm_hits, <<"c","l","u","s","t","e","r">>) >= 1
    /\ <<"k","8","s">> \notin AllTerms(engine)

\* the file exists and json.load fails on it, or it lacks doc_count, meta or
\* one of the five fields of a term
Malformed(file) ==
    /\ file.kind # "absent"
    /\ \/ file.kind # "json"
       \/ ~({"doc_count", "meta"} \subseteq DOMAIN file.data)
       \/ \E t \in DOMAIN file.data.meta : \E f \in MetaFields :
              f \notin DOMAIN file.data.meta[t]

\* C10: load returns the fresh engine when there is no snapshot file; when
\* the file exists and is malformed it returns no engine; otherwise the engine
\* it returns holds what the file holds.
C10_LoadFailsFast ==
    last.op = "load" =>
        IF stats.kind = "absent" THEN engine = NewEngine
        ELSE IF Malformed(stats) THEN ~engine.alive
        ELSE /\ engine.alive
             /\ engine.doc_count = stats.data.doc_count
             /\ DOMAIN engine.df = DOMAIN stats.data.meta
             /\ \A t \in DOMAIN engine.df : engine.df[t] = stats.data.meta[t].df

\* a load of a file in which one term lacks one field, the others being whole
C10_Witness ==
    /\ last.op = "load"
    /\ stats.kind = "json"
    /\ {"doc_count", "meta"} \subseteq DOMAIN stats.data
    /\ Cardinality(DOMAIN stats.data.meta) >= 2
    /\ \E t \in DOMAIN stats.data.meta : ~(MetaFields \subseteq DOMAIN stats.data.meta[t])
    /\ \E t \in DOMAIN stats.data.meta : MetaFields \subseteq DOMAIN stats.data.meta[t]
    /\ ~engine.alive

\* str(n) of a natural number
RECURSIVE IntToStr(_)
IntToStr(n) ==
    IF n < 10 THEN <<Digits[n + 1]>>
    ELSE IntToStr(n \div 10) \o <<Digits[(n % 10) + 1]>>

\* "  " * indent_level
RECURSIVE Indent(_)
Indent(indent_level) ==
    IF indent_level = 0 THEN <<>> ELSE <<" ", " ">> \o Indent(indent_level - 1)

\* the bullet glyph U+2022 of the unordered marker, written as one character
Bullet == <<"*">>

\* f"{indent}  - [{text}]({href})"
LinkLine(indent, link) ==
    indent \o <<" ", " ", "-", " ", "[">> \o link.text \o <<"]", "(">> \o link.href \o <<")">>

RECURSIVE format_nested_list_as_text(_, _)
\* what one item appends to text_parts: its own line, one line per direct
\* link and, when nested_list is a dictionary, the text of the nested list
\* as one part
ItemParts(list_data, idx, indent_level) ==
    LET item == list_data.items[idx]
        indent == Indent(indent_level)
        marker == IF list_data.list_type = "ol" THEN IntToStr(idx) \o <<".">> ELSE Bullet
    IN  <<IF item.text # <<>> THEN indent \o marker \o <<" ">> \o item.text
          ELSE indent \o marker>>
        \o [k \in 1..Len(item.links) |-> LinkLine(indent, item.links[k])]
        \o (IF item.nested_list # <<>>
            THEN <<format_nested_list_as_text(item.nested_list[1], indent_level + 1)>>
            ELSE <<>>)

format_nested_list_as_text(list_data, indent_level) ==
    Join(<<"\n">>, Concat([idx \in 1..Len(list_data.items) |->
                              ItemParts(list_data, idx, indent_level)]))


(***************************************************************************)
(* The table extractor and its rendering.                                  *)
(***************************************************************************)
\* [e.get_text(strip=True) for e in elements]
Texts(elements) == [i \in 1..Len(elements) |-> get_text(elements[i])]

\* the entry of processed_links for one link of a cell
CellLink(link) ==
    LET spans == find_all(link, {"span"})
    IN  [text |-> IF spans # <<>> THEN get_text(spans[1]) ELSE get_text(link),
         href |-> AbsoluteHref(link)]

\* "for li in lst: li.decompose()" walks the list of children of lst while
\* each decompose() deletes from it: the child at index 0 goes, the former
\* index 2 is now at index 1 and goes next, and so on, so that the children
\* at the odd indices stay.  (The children of a list in a cell are tags.)
AfterDecomposeLoop(contents) == [i \in 1..(Len(contents) \div 2) |-> contents[2 * i]]

\* the cell after the loop above has run on every list below it
RECURSIVE ListItemsRemoved(_)
ListItemsRemoved(element) ==
    LET kept == IF element.name \in ListNames
                THEN AfterDecomposeLoop(element.children)
                ELSE element.children
    IN  [element EXCEPT !.children = [i \in 1..Len(kept) |-> ListItemsRemoved(kept[i])]]

\* cell_content of one td or th (its lists are not nested in one another)
CellContent(td) ==
    LET links == find_all_links(td)
        lists == find_all(td, ListNames)
    IN  [text |-> get_text(ListItemsRemoved(td)),
         links |-> [i \in 1..Len(links) |-> CellLink(links[i])],
         lists |-> [i \in 1..Len(lists) |->
                       [type |-> lists[i].name,
                        items |-> Texts(find_all(lists[i], {"li"}))]]]

sTableId == <<"t","a","b","l","e","_">>
sListId == <<"l","i","s","t","_">>

\* extract_table_data(table) for a single table element: the list it
\* returns, which is empty when the table has neither headers nor rows
extract_table_data(table) ==
    LET caption == find_all(table, {"caption"})
        header_row == find_all(table, {"thead"})
        all_trs == find_all(table, {"tr"})
        tbody == find_all(table, {"tbody"})
        headers == IF header_row # <<>> THEN Texts(find_all(header_row[1], {"th"}))
                   ELSE IF all_trs # <<>> THEN Texts(find_all(all_trs[1], {"th", "td"}))
                   ELSE <<>>
        found == IF tbody # <<>> THEN find_all(tbody[1], {"tr"}) ELSE all_trs
        trs == IF header_row = <<>> /\ found # <<>> THEN Tail(found) ELSE found
        row(tr) == LET cells == find_all(tr, {"td", "th"})
                   IN  [j \in 1..Len(cells) |-> CellContent(cells[j])]
        rows == SelectSeq([i \in 1..Len(trs) |-> row(trs[i])], LAMBDA r : r # <<>>)
    IN  IF headers # <<>> \/ rows # <<>>
        THEN <<[table_id |-> sTableId \o IntToStr(0),
                caption |-> IF caption # <<>> THEN get_text(caption[1]) ELSE <<>>,
                headers |-> headers,
                rows |-> rows]>>
        ELSE <<>>

sPipe == <<" ", "|", " ">>
sTableCaption == <<"T","a","b","l","e",":"," ">>

\* the text of one list item of a cell: with the href of the first link of
\* the cell that has the item as its text, when there is one
CellListItem(cell, lst, item) ==
    LET list_marker == IF lst.type = "ul" THEN Bullet ELSE <<"+">>
        linked == SelectSeq(cell.links, LAMBDA link : link.text = item)
    IN  IF linked # <<>>
        THEN list_marker \o <<" ", "[">> \o item \o <<"]", "(">> \o linked[1].href \o <<")">>
        ELSE list_marker \o <<" ">> \o item

\* " ".join(cell_texts) of one cell
CellText(cell) ==
    LET matching == SelectSeq(cell.links, LAMBDA link : cell.text = link.text)
    IN  Join(<<" ">>,
             (IF cell.text # <<>> THEN <<cell.text>> ELSE <<>>)
             \o [i \in 1..Len(matching) |-> <<"(">> \o matching[i].href \o <<")">>]
             \o Concat([i \in 1..Len(cell.lists) |->
                           [k \in 1..Len(cell.lists[i].items) |->
                               CellListItem(cell, cell.lists[i], cell.lists[i].items[k])]]))

format_table_as_text(table_data) ==
    Join(<<"\n">>,
         (IF table_data.caption # <<>> THEN <<sTableCaption \o table_data.caption>> ELSE <<>>)
         \o (IF table_data.headers # <<>> THEN <<Join(sPipe, table_data.headers)>> ELSE <<>>)
         \o [i \in 1..Len(table_data.rows) |->
                Join(sPipe, [j \in 1..Len(table_data.rows[i]) |->
                                CellText(table_data.rows[i][j])])])


(***************************************************************************)
(* The structured content extractor.  The walk is given the container and  *)
(* the path of the element it looks at; every block records the path of    *)
(* the node it was made from (history, not part of the dictionaries).      *)
(***************************************************************************)
RECURSIVE NodeAt(_, _)
NodeAt(element, path) ==
    IF path = <<>> THEN element ELSE NodeAt(element.children[Head(path)], Tail(path))

\* element.find_parent(names) for the element at the path: its ancestors
\* with one of the names, the container included
find_parent(root, path, names) ==
    SelectSeq([k \in 1..Len(path) |-> NodeAt(root, SubSeq(path, 1, k - 1))],
              LAMBDA d : d.name \in names)

RECURSIVE extract_nested_div_content(_, _, _)

\* one turn of the loop of extract_nested_div_content, on the child at path;
\* acc holds content_items and processed_list_roots
NestedStep(root, path, acc) ==
    LET element == NodeAt(root, path)
        text == IF HasName(element) THEN get_text(element) ELSE StrStrip(element.text)
        tables == extract_table_data(element)
        list_data == [list_type |-> element.name, items |-> _process_list_items(element)]
        nested_items == extract_nested_div_content(root, path, acc.processed)
    IN  IF ~HasName(element) \/ element.name \in HeadingNames
        THEN IF text # <<>>
             THEN [acc EXCEPT !.items =
                      Append(@, [type |-> "text", content |-> text, path |-> path])]
             ELSE acc
        ELSE IF element.name = "table"
        THEN IF tables # <<>>
             THEN [acc EXCEPT !.items =
                      Append(@, [type |-> "table", table_data |-> tables[1], path |-> path])]
             ELSE acc
        ELSE IF element.name \in ListNames /\ element \notin acc.processed
        THEN IF find_parent(root, path, ListNames) = <<>>
             THEN [items |-> IF list_data.items # <<>>
                             THEN Append(acc.items, [type |-> "list", list_data |-> list_data,
                                                     path |-> path])
                             ELSE acc.items,
                   processed |-> acc.processed \cup {element}]
             ELSE acc
        ELSE IF element.name = "div"
        THEN [items |-> acc.items \o nested_items.items, processed |-> nested_items.processed]
        ELSE acc

\* the loop "for element in div_element.children", from child i on
RECURSIVE NestedLoop(_, _, _, _)
NestedLoop(root, path, i, acc) ==
    IF i > Len(NodeAt(root, path).children) THEN acc
    ELSE NestedLoop(root, path, i + 1, NestedStep(root, Append(path, i), acc))

\* extract_nested_div_content(div_element, processed_list_roots) for the div
\* at path: content_items, and processed_list_roots as the call leaves it
extract_nested_div_content(root, path, processed_list_roots) ==
    NestedLoop(root, path, 1, [items |-> <<>>, processed |-> processed_list_roots])

\* the local variables of extract_structured_content before the walk
NewWalk ==
    [content_parts |-> <<>>, current_position |-> 0, table_counter |-> 0,
     list_counter |-> 0, processed |-> {}, tables |-> <<>>, lists |-> <<>>]

\* faulty variant: the blocks of one div share a position, which is raised after the last
RECURSIVE PlaceNested_OnePosition(_, _)
PlaceNested_OnePosition(items, w) ==
    IF items = <<>> THEN w
    ELSE LET item == Head(items)
             table_data == [item.table_data EXCEPT
                               !.table_id = sTableId \o IntToStr(w.table_counter)]
             list_data == [list_id |-> sListId \o IntToStr(w.list_counter),
                           list_type |-> item.list_data.list_type,
                           items |-> item.list_data.items]
             placed ==
                 IF item.type = "table"
                 THEN [w EXCEPT !.table_counter = @ + 1,
                                !.tables = Append(@, table_data),
                                !.content_parts =
                                    Append(@, [position |-> w.current_position,
                                               type |-> "table", id |-> table_data.table_id,
                                               text |-> format_table_as_text(table_data),
                                               path |-> item.path])]
                 ELSE IF item.type = "list"
                 THEN [w EXCEPT !.list_counter = @ + 1,
                                !.lists = Append(@, list_data),
                                !.content_parts =
                                    Append(@, [position |-> w.current_position,
                                               type |-> "list", id |-> list_data.list_id,
                                               text |-> format_nested_list_as_text(list_data, 0),
                                               path |-> item.path])]
                 ELSE [w EXCEPT !.content_parts =
                                    Append(@, [position |-> w.current_position,
                                               type |-> "text", content |-> item.content,
                                               path |-> item.path])]
         IN  PlaceNested_OnePosition(Tail(items), [placed EXCEPT !.current_position = @ + (IF Len(items) = 1 THEN 1 ELSE 0)])


\* what the loop over nested_content does with one item of a div
RECURSIVE PlaceNested(_, _)
PlaceNested(items, w) ==
    IF items = <<>> THEN w
    ELSE LET item == Head(items)
             table_data == [item.table_data EXCEPT
                               !.table_id = sTableId \o IntToStr(w.table_counter)]
             list_data == [list_id |-> sListId \o IntToStr(w.list_counter),
                           list_type |-> item.list_data.list_type,
                           items |-> item.list_data.items]
             placed ==
                 IF item.type = "table"
                 THEN [w EXCEPT !.table_counter = @ + 1,
                                !.tables = Append(@, table_data),
                                !.content_parts =
                                    Append(@, [position |-> w.current_position,
                                               type |-> "table", id |-> table_data.table_id,
                                               text |-> format_table_as_text(table_data),
                                               path |-> item.path])]
                 ELSE IF item.type = "list"
                 THEN [w EXCEPT !.list_counter = @ + 1,
                                !.lists = Append(@, list_data),
                                !.content_parts =
                                    Append(@, [position |-> w.current_position,
                                               type |-> "list", id |-> list_data.list_id,
                                               text |-> format_nested_list_as_text(list_data, 0),
                                               path |-> item.path])]
                 ELSE [w EXCEPT !.content_parts =
                                    Append(@, [position |-> w.current_position,
                                               type |-> "text", content |-> item.content,
                                               path |-> item.path])]
         IN  PlaceNested(Tail(items), [placed EXCEPT !.current_position = @ + 1])


\* a block of content_parts
TextPart(w, content, path) ==
    [position |-> w.current_position, type |-> "text", content |-> content, path |-> path]

\* one turn of the loop "for element in soup.children", on the child at path
WalkStep(root, path, w) ==
    LET element == NodeAt(root, path)
        link == find_all_links(element)
        tables == extract_table_data(element)
        table_data == [tables[1] EXCEPT !.table_id = sTableId \o IntToStr(w.table_counter)]
        list_data == [list_id |-> sListId \o IntToStr(w.list_counter),
                      list_type |-> element.name,
                      items |-> _process_list_items(element)]
        nested_content == extract_nested_div_content(root, path, w.processed)
    IN  IF ~HasName(element)
        THEN IF StrStrip(element.text) # <<>>
             THEN [w EXCEPT !.content_parts = Append(@, TextPart(w, StrStrip(element.text), path)),
                            !.current_position = @ + 1]
             ELSE w
        ELSE IF element.name \in HeadingNames
        THEN [w EXCEPT !.content_parts =
                           Append(@, TextPart(w,
                               IF link # <<>>
                               THEN <<"[">> \o get_text(element) \o <<"]", "(">>
                                        \o AbsoluteHref(link[1]) \o <<")">>
                               ELSE get_text(element),
                               path)),
                       !.current_position = @ + 1]
        ELSE IF element.name = "table"
        THEN IF tables # <<>>
             THEN [w EXCEPT !.table_counter = @ + 1,
                            !.tables = Append(@, table_data),
                            !.content_parts =
                                Append(@, [position |-> w.current_position,
                                           type |-> "table", id |-> table_data.table_id,
                                           text |-> format_table_as_text(table_data),
                                           path |-> path]),
                            !.current_position = @ + 1]
             ELSE w
        ELSE IF element.name \in ListNames /\ element \notin w.processed
        THEN IF find_parent(root, path, ListNames) = <<>>
             THEN IF list_data.items # <<>>
                  THEN [w EXCEPT !.list_counter = @ + 1,
                                 !.processed = @ \cup {element},
                                 !.lists = Append(@, list_data),
                                 !.content_parts =
                                     Append(@, [position |-> w.current_position,
                                                type |-> "list", id |-> list_data.list_id,
                                                text |-> format_nested_list_as_text(list_data, 0),
                                                path |-> path]),
                                 !.current_position = @ + 1]
                  ELSE [w EXCEPT !.list_counter = @ + 1, !.processed = @ \cup {element}]
             ELSE w
        ELSE IF element.name = "div"
        THEN PlaceNested(nested_content.items, [w EXCEPT !.processed = nested_content.processed])
        ELSE w

RECURSIVE WalkLoop(_, _, _)
WalkLoop(root, i, w) ==
    IF i > Len(root.children) THEN w
    ELSE WalkLoop(root, i + 1, WalkStep(root, <<i>>, w))

\* faulty variant: the blocks are sorted by falling position
RECURSIVE SortByPosition_Falling(_)
SortByPosition_Falling(parts) ==
    IF parts = <<>> THEN <<>>
    ELSE LET rest == SortByPosition_Falling(Tail(parts))
             before == SelectSeq(rest, LAMBDA q : q.position > Head(parts).position)
             after == SelectSeq(rest, LAMBDA q : q.position <= Head(parts).position)
         IN  before \o <<Head(parts)>> \o after

\* content_parts.sort(key=lambda x: x["position"]): a stable sort
RECURSIVE SortByPosition(_)
SortByPosition(parts) ==
    IF parts = <<>> THEN <<>>
    ELSE LET rest == SortByPosition(Tail(parts))
             before == SelectSeq(rest, LAMBDA q : q.position < Head(parts).position)
             after == SelectSeq(rest, LAMBDA q : q.position >= Head(parts).position)
         IN  before \o <<Head(parts)>> \o after

\* the loop that fills full_content: a text block is taken when its content
\* is not blank, a table or list block always
FullContent(parts) ==
    LET taken == SelectSeq(parts, LAMBDA part :
                     IF part.type = "text" THEN StrStrip(part.content) # <<>> ELSE TRUE)
    IN  [i \in 1..Len(taken) |->
            IF taken[i].type = "text" THEN taken[i].content ELSE taken[i].text]

sBlankLine == <<"\n", "\n">>

\* the walk of extract_structured_content(soup) over a container tag
Walk(root) == WalkLoop(root, 1, NewWalk)

\* the dictionary extract_structured_content returns, given the state the
\* walk ended in
ResultOf(root, w) ==
    IF w.content_parts = <<>>
    THEN [text |-> get_text(root), tables |-> w.tables, lists |-> w.lists]
    ELSE [text |-> Join(sBlankLine, FullContent(SortByPosition(w.content_parts))),
          tables |-> w.tables,
          lists |-> w.lists]


(***************************************************************************)
(* The pages given to the extractor.  The container is the tag             *)
(* <div id="page-data"> of process_page; a page is named by the children   *)
(* of the container.                                                       *)
(***************************************************************************)
Str(c) == NavigableString(<<c>>)
P(children) == Tag("p", children)
Div(children) == Tag("div", children)
Li(children) == Tag("li", children)
Td(children) == Tag("td", children)
Tr(cells) == Tag("tr", cells)

sRelative == <<"p">>
sAbsolute == sHttps \o <<"x">>

LinkL == Link(sRelative, <<Str("L")>>)
PA == P(<<Str("A")>>)
PB == P(<<Str("B")>>)
PLink == P(<<Str("S"), LinkL>>)
PBlank == P(<<Str(" ")>>)
RowAB == Tr(<<Td(<<Str("A")>>), Td(<<Str("B")>>)>>)
Row12 == Tr(<<Td(<<Str("1")>>), Td(<<Str("2")>>)>>)
TableAB == Tag("table", <<RowAB, Row12>>)
TableBlank == Tag("table", <<Tr(<<Td(<<>>)>>)>>)
UlA == Tag("ul", <<Li(<<Str("a")>>)>>)
OlNested == Tag("ol", <<Li(<<Str("a"), Tag("ul", <<Li(<<Str("b")>>)>>)>>)>>)

\* the blocks a flow page is made of
FlowNodes == {PA, PB, PLink, PBlank, TableAB, TableBlank, UlA, OlNested, Str("x")}

\* children wrapped in depth divs, one inside the other
RECURSIVE Wrapped(_, _)
Wrapped(children, depth) ==
    IF depth = 0 THEN children ELSE <<Div(Wrapped(children, depth - 1))>>

DivDepths == {1, 2}

\* the children with those from index i to index j moved into divs
WithDiv(children, i, j, depth) ==
    SubSeq(children, 1, i - 1) \o Wrapped(SubSeq(children, i, j), depth)
        \o SubSeq(children, j + 1, Len(children))

SeqsUpTo(S, n) == UNION {[1..k -> S] : k \in 1..n}

\* up to MaxChildren blocks, directly under the container or with some
\* consecutive ones inside a div
FlowPages ==
    LET plain == SeqsUpTo(FlowNodes, MaxChildren)
    IN  plain \cup {WithDiv(c, i, j, d) : <<c, i, j, d>> \in
                       {q \in plain \X (1..MaxChildren) \X (1..MaxChildren) \X DivDepths :
                           q[2] <= q[3] /\ q[3] <= Len(q[1])}}

\* text block A, a table, text block B
PageATB == <<PA, TableAB, PB>>

\* the same inside divs
PageATBDivs == <<Div(<<PA>>), Div(<<Div(<<TableAB, PB>>)>>)>>

\* two blocks in one div, and a block after it
PageDivThenB == <<Div(<<PA, TableAB>>), PB>>


\* a row whose one cell holds the text x and a list of k items a, b, ...
RowList(k) ==
    Tr(<<Td(<<Str("x"), Tag("ul", [i \in 1..k |-> Li(<<Str(Lowers[i])>>)])>>)>>)

RowSet == {RowAB, Row12, Tr(<<Td(<<>>)>>), Tr(<<>>)} \cup {RowList(k) : k \in 1..MaxItems}

HeadRow == Tr(<<Tag("th", <<Str("H")>>), Tag("th", <<Str("K")>>)>>)

TableLayouts == {"rows", "tbody", "tfoot", "tbodies", "thead", "theadrows"}

\* the children of a table with the given rows: directly in the table, in
\* one body section, with the last row in a footer section, with the rows
\* after the first in a second body section, below a header section in a
\* body section, or below a header section directly in the table
TableChildren(rows, layout) ==
    IF layout = "rows" THEN rows
    ELSE IF layout = "tbody" THEN <<Tag("tbody", rows)>>
    ELSE IF layout = "tfoot"
    THEN <<Tag("tbody", SubSeq(rows, 1, Len(rows) - 1)), Tag("tfoot", <<rows[Len(rows)]>>)>>
    ELSE IF layout = "tbodies"
    THEN <<Tag("tbody", <<rows[1]>>), Tag("tbody", Tail(rows))>>
    ELSE IF layout = "thead" THEN <<Tag("thead", <<HeadRow>>), Tag("tbody", rows)>>
    ELSE <<Tag("thead", <<HeadRow>>)>> \o rows

TablePages ==
    {<<Tag("table", TableChildren(q[1], q[2]))>> :
        q \in {q \in SeqsUpTo(RowSet, MaxRows) \X TableLayouts :
                  q[2] \in {"tfoot", "tbodies"} => Len(q[1]) >= 2}}

LeafItems == {Li(<<Str("b")>>), Li(<<LinkL>>)}

\* the lists nested in an item: up to MaxItems items, or none
NestedLists ==
    {Tag(q[1], q[2]) : q \in ListNames \X ({<<>>} \cup SeqsUpTo(LeafItems, MaxItems))}

\* what an item starts with: text, text around a link, an anchor without
\* href followed by a link without text
ItemHeads ==
    {<<Str("a")>>, <<Str("a"), LinkL, Str("c")>>,
     <<Tag("a", <<Str("n")>>), Link(sAbsolute, <<>>)>>}

UlZ == Tag("ul", <<Li(<<Str("z"), Link(sAbsolute, <<Str("Z")>>)>>)>>)

\* what follows in the item: nothing, a child list, two child lists, a list
\* inside a span
ItemTails ==
    {<<>>} \cup UNION {{<<n>>, <<n, UlZ>>, <<Tag("span", <<n>>)>>} : n \in NestedLists}

ListItems == {Li(q[1] \o q[2]) : q \in ItemHeads \X ItemTails}

\* three levels, the innermost ordered
ListDeep ==
    Tag("ul", <<Li(<<Str("a"),
                    Tag("ul", <<Li(<<Str("b"),
                                    Tag("ol", <<Li(<<Str("c"), LinkL>>),
                                                Li(<<Str("d")>>)>>)>>)>>)>>)>>)

ListPages ==
    {<<Tag(q[1], q[2])>> :
        q \in ListNames \X UNION {{<<r>>, <<Li(<<Str("d")>>), r>>} : r \in ListItems}}

Pages == FlowPages \cup TablePages \cup ListPages \cup {PageATB, PageATBDivs, PageDivThenB, <<ListDeep>>}

\* page_content = soup.find('div', id='page-data')
Container(children) == Div(children)

InitScraper ==
    /\ engine = NewEngine
    /\ stats = Absent
    /\ symspell = Absent
    /\ ref = NewEngine
    /\ snap = NoSnap
    /\ resumed = TRUE
    /\ last = Op("init", 0, 0)
    /\ nConsumed = 0
    /\ NoCalls
    /\ soup \in {Container(c) : c \in Pages}
    /\ content_parts = <<>>
    /\ result = NoResult
    /\ NoCrawl

\* structured_content = self.extract_structured_content(page_content);
\* content_parts is kept as the walk filled it
extract_structured_content ==
    /\ last.op = "init"
    /\ LET w == Walk(soup)
       IN  /\ content_parts' = w.content_parts
           /\ result' = ResultOf(soup, w)
    /\ last' = Op("extract", 0, 0)
    /\ UNCHANGED <<engine, stats, symspell, ref, snap, resumed, nConsumed, raceVars, soup,
                   pageVars>>

NextScraper == extract_structured_content

SpecScraper == InitScraper /\ [][NextScraper]_vars


(***************************************************************************)
(* Change detection and the run of the script (src/utils/get_page_hash.py  *)
(* and the module level, start and process_page of src/scrape.py).  A run  *)
(* of the script calls detect_updated_pages while it is imported and then  *)
(* processes the pages it reported, one after the other.  A page of the    *)
(* knowledge base is known by its content version; the raw text and the    *)
(* rendered page of a version are made from it.                            *)
(***************************************************************************)
KBASE_URLS == <<"page=A", "page=B">>

\* response.text of the raw page at a content version
RawText(version) == <<"raw", version>>

\* hashlib.sha256(content.encode()).hexdigest(): a digest that differs for
\* the contents that differ
hexdigest(content) == <<"sha256">> \o content

\* the dictionary d after d[k] = v
Put(d, k, v) == [x \in DOMAIN d \cup {k} |-> IF x = k THEN v ELSE d[x]]

\* load_cache: the empty dictionary when there is no file
load_cache(file) == IF file.kind = "absent" THEN <<>> ELSE file.data

\* save_cache
save_cache(cache) == JsonFile(cache)

\* fetch_and_check, given the response to the request for the raw page
\* (<<>> when the request raised): the cache after it and what it returns
\* (<<>> for None)
fetch_and_check(url, cache, response) ==
    IF response = <<>> THEN [cache |-> cache, returned |-> <<>>]
    ELSE LET new_hash == hexdigest(response[1])
             old_hash == IF url \in DOMAIN cache THEN cache[url].hash ELSE None
         IN  IF new_hash # old_hash
             THEN [cache |-> Put(cache, url, [hash |-> new_hash]), returned |-> <<url>>]
             ELSE [cache |-> cache, returned |-> <<>>]

\* executor.map over the urls (each call writes the key of its own url, and
\* the results come in the order of the urls): the cache after the calls
\* and updated_pages
RECURSIVE CheckAll(_, _, _)
CheckAll(urls, cache, responses) ==
    IF urls = <<>> THEN [cache |-> cache, updated_pages |-> <<>>]
    ELSE LET r == fetch_and_check(Head(urls), cache, responses[Head(urls)])
             rest == CheckAll(Tail(urls), r.cache, responses)
         IN  [cache |-> rest.cache, updated_pages |-> r.returned \o rest.updated_pages]

InitPages ==
    /\ engine = NewEngine
    /\ stats = Absent
    /\ symspell = Absent
    /\ ref = NewEngine
    /\ snap = NoSnap
    /\ resumed = TRUE
    /\ last = Op("init", 0, 0)
    /\ nConsumed = 0
    /\ NoCalls
    /\ NoExtraction
    /\ site = [u \in Range(KBASE_URLS) |-> 0]
    /\ cache_file = Absent
    /\ TIKI_URLS = <<>>
    /\ cursor = 1
    /\ index = <<>>
    /\ owed = {}
    /\ fetched = {}
    /\ nRuns = 0
    /\ nEdits = 0

\* a run begins: TIKI_URLS = detect_updated_pages(), the requests for the
\* pages of ok succeed and the others fail
detect_updated_pages ==
    /\ cursor > Len(TIKI_URLS)
    /\ nRuns < MaxRuns
    /\ \E ok \in SUBSET Range(KBASE_URLS) :
           LET responses == [u \in Range(KBASE_URLS) |->
                                IF u \in ok THEN <<RawText(site[u])>> ELSE <<>>]
               r == CheckAll(KBASE_URLS, load_cache(cache_file), responses)
           IN  /\ cache_file' = save_cache(r.cache)
               /\ TIKI_URLS' = r.updated_pages
               /\ fetched' = ok
    /\ cursor' = 1
    /\ nRuns' = nRuns + 1
    /\ last' = Op("detect", 0, 0)
    /\ UNCHANGED <<site, index, owed, nEdits>>
    /\ UNCHANGED <<engine, stats, symspell, ref, snap, resumed, nConsumed,
                   raceVars, scraperVars>>

\* how one call of process_page ends: the document reached the index, or the
\* fetch, the summary or the indexing failed, which the call logs
ProcessOutcomes == {"indexed", "fetch_failed", "summary_failed", "index_failed"}

\* the loop of start calls process_page for the next url of TIKI_URLS
process_page(outcome) ==
    /\ cursor <= Len(TIKI_URLS)
    /\ LET url == TIKI_URLS[cursor]
       IN  /\ index' = IF outcome = "indexed" THEN Put(index, url, site[url]) ELSE index
           /\ owed' = IF outcome = "indexed" THEN owed \ {url} ELSE owed \cup {url}
    /\ last' = Op(outcome, cursor, 0)
    /\ cursor' = cursor + 1
    /\ UNCHANGED <<site, cache_file, TIKI_URLS, fetched, nRuns, nEdits>>
    /\ UNCHANGED <<engine, stats, symspell, ref, snap, resumed, nConsumed,
                   raceVars, scraperVars>>

\* an author saves a new version of a page of the knowledge base
EditPage(u) ==
    /\ nEdits < MaxEdits
    /\ site' = [site EXCEPT ![u] = @ + 1]
    /\ owed' = owed \ {u}
    /\ nEdits' = nEdits + 1
    /\ last' = Op("edit", 0, 0)
    /\ UNCHANGED <<cache_file, TIKI_URLS, cursor, index, fetched, nRuns>>
    /\ UNCHANGED <<engine, stats, symspell, ref, snap, resumed, nConsumed,
                   raceVars, scraperVars>>

NextPages ==
    \/ detect_updated_pages
    \/ \E outcome \in ProcessOutcomes : process_page(outcome)
    \/ \E u \in Range(KBASE_URLS) : EditPage(u)

SpecPages == InitPages /\ [][NextPages]_vars

(***************************************************************************)
(* Unsynchronized calls of consume_document.                               *)
(***************************************************************************)
\* both calls have returned
AllReturned == \A t \in Threads : calls[t].status = "done"

\* what the two calls leave behind when one runs after the other, in either
\* order
SerialResults ==
    {consume_document(consume_document(NewEngine, DocAnalysis[calls[t].doc]),
                      DocAnalysis[calls[u].doc]) : <<t, u>> \in {<<1, 2>>, <<2, 1>>}}

SameCounts(e1, e2) ==
    /\ e1.doc_count = e2.doc_count
    /\ e1.df = e2.df
    /\ e1.tf = e2.tf

\* no counter is above its value in e2
NoCountAbove(e1, e2) ==
    /\ e1.doc_count <= e2.doc_count
    /\ \A t \in DOMAIN e1.df : e1.df[t] <= Get(e2.df, t)
    /\ \A t \in DOMAIN e1.tf : e1.tf[t] <= Get(e2.tf, t)

\* C11: when each of the two consume calls completes before the other begins,
\* the collector ends in the state of the sequential run, which is the same
\* for both serial orders; calls that interleave can only lose increments, so
\* that no count of docCount, df or tf ends above its sequential value (the
\* witness is a run that ends below it).
C11_SerialEqualsSequential ==
    AllReturned =>
        /\ \A s \in SerialResults : SameStatistics(s, ref) /\ NoCountAbove(engine, s)
        /\ ~overlapped => engine = ref

\* two interleaved calls on documents with content have returned and
\* docCount, df and tf differ from the result of both serial orders
C11_Witness ==
    /\ AllReturned
    /\ overlapped
    /\ \A t \in Threads : ~DocAnalysis[calls[t].doc].skip
    /\ \A s \in SerialResults : ~SameCounts(engine, s)
    /\ engine.doc_count = 1
    /\ \E t \in DOMAIN engine.df : engine.df[t] < Get(ref.df, t)
    /\ \E t \in DOMAIN engine.tf : engine.tf[t] < Get(ref.tf, t)

(***************************************************************************)
(* The structured content extractor.                                       *)
(***************************************************************************)
\* the extraction of the page has returned
Extracted == last.op = "extract"

\* the node at path p comes before the node at path q in the document
PathLess(p, q) ==
    \E k \in 1..Len(q) :
        /\ k <= Len(p) + 1
        /\ SubSeq(p, 1, k - 1) = SubSeq(q, 1, k - 1)
        /\ k <= Len(p) => p[k] < q[k]

\* the blocks in the document order of the nodes they were made from
RECURSIVE ByDocumentOrder(_)
ByDocumentOrder(parts) ==
    IF parts = <<>> THEN <<>>
    ELSE LET rest == ByDocumentOrder(Tail(parts))
             before == SelectSeq(rest, LAMBDA q : PathLess(q.path, Head(parts).path))
             after == SelectSeq(rest, LAMBDA q : ~PathLess(q.path, Head(parts).path))
         IN  before \o <<Head(parts)>> \o after

\* the rendered text of a block
Rendered(part) == IF part.type = "text" THEN part.content ELSE part.text

sTableABText == <<"A", " ", "|", " ", "B", "\n", "1", " ", "|", " ", "2">>

\* C12: the flattened text holds the rendered blocks in the document order of
\* the nodes they were made from, joined by blank lines; for text block A, a
\* table and text block B it is A, the table text and B, also when the blocks
\* sit inside div elements.
C12_DocumentOrder ==
    Extracted =>
        /\ content_parts # <<>> =>
               LET ordered == ByDocumentOrder(content_parts)
                   listed == SelectSeq(ordered, LAMBDA part :
                                 part.type # "text" \/ StrStrip(part.content) # <<>>)
               IN  result.text = Join(sBlankLine, [i \in 1..Len(listed) |-> Rendered(listed[i])])
        /\ soup.children \in {PageATB, PageATBDivs, PageDivThenB} =>
               result.text = <<"A">> \o sBlankLine \o sTableABText \o sBlankLine \o <<"B">>

\* text block A, the table and text block B were extracted from inside divs
C12_Witness ==
    /\ Extracted
    /\ soup.children = PageATBDivs
    /\ Len(content_parts) = 3
    /\ result.text = <<"A">> \o sBlankLine \o sTableABText \o sBlankLine \o <<"B">>

\* C13: no two blocks of an extraction share a position, and a block appended
\* later has a strictly greater position than every block appended before it.
C13_PositionsIncrease ==
    \A i \in 1..Len(content_parts) : \A j \in 1..Len(content_parts) :
        i < j => content_parts[i].position < content_parts[j].position

\* a div gave two blocks, and a third block was appended after them
C13_Witness ==
    /\ Extracted
    /\ Len(content_parts) >= 3
    /\ \E i \in 1..Len(content_parts) : \E j \in 1..Len(content_parts) :
           /\ i < j
           /\ Len(content_parts[i].path) >= 2
           /\ content_parts[i].path[1] = content_parts[j].path[1]
    /\ Len(content_parts[Len(content_parts)].path) = 1

\* the blocks of one kind
PartsOf(type) == SelectSeq(content_parts, LAMBDA part : part.type = type)

\* the entry of result.tables a table block refers to
TableOf(part) == SelectSeq(result.tables, LAMBDA t : t.table_id = part.id)[1]

\* the entry of result.lists a list block refers to
ListOf(part) == SelectSeq(result.lists, LAMBDA l : l.list_id = part.id)[1]

\* the cells of a row of the page
CellsOf(tr) == find_all(tr, {"td", "th"})

\* C14: the text of every extracted cell is the text of a cell of the table
\* with every item of its lists taken out, for lists of any number of items.
C14_CellTextExcludesListItems ==
    \A p \in 1..Len(PartsOf("table")) :
        LET part == PartsOf("table")[p]
            cells == CellsOf(NodeAt(soup, part.path))
        IN  \A r \in 1..Len(TableOf(part).rows) : \A c \in 1..Len(TableOf(part).rows[r]) :
                \E k \in 1..Len(cells) :
                    /\ TableOf(part).rows[r][c].lists = CellContent(cells[k]).lists
                    /\ TableOf(part).rows[r][c].text = get_text(Decomposed(cells[k], {"li"}))

\* C15: for every table without a header section, headers are the cell texts
\* of its first row and rows are all the other rows of the table that have a
\* cell, in order, none dropped, with or without a body section.
C15_FirstRowIsHeader ==
    \A p \in 1..Len(PartsOf("table")) :
        LET part == PartsOf("table")[p]
            table == NodeAt(soup, part.path)
            trs == find_all(table, {"tr"})
            others == SelectSeq(Tail(trs), LAMBDA tr : CellsOf(tr) # <<>>)
        IN  (find_all(table, {"thead"}) = <<>> /\ trs # <<>>) =>
                /\ TableOf(part).headers = Texts(CellsOf(trs[1]))
                /\ TableOf(part).rows =
                       [r \in 1..Len(others) |->
                           [c \in 1..Len(CellsOf(others[r])) |->
                               CellContent(CellsOf(others[r])[c])]]

\* the paths of the nodes the walk looks at: the children of the container
\* and of the divs it goes through
RECURSIVE WalkedBelow(_, _)
WalkedBelow(root, path) ==
    UNION {{Append(path, i)} \cup
           (IF NodeAt(root, Append(path, i)).name = "div"
            THEN WalkedBelow(root, Append(path, i)) ELSE {})
           : i \in 1..Len(NodeAt(root, path).children)}

\* the lists the walk reaches that have an item
ListsReached ==
    {path \in WalkedBelow(soup, <<>>) :
        /\ NodeAt(soup, path).name \in ListNames
        /\ find_all_children(NodeAt(soup, path), {"li"}) # <<>>}

\* C16: no list node gives two blocks, no list inside another list gives a
\* block, and every list the walk reaches that has an item and no list
\* ancestor gives exactly one block and one entry of lists, also when two
\* lists have equal markup.
C16_EveryListOnce ==
    Extracted =>
        /\ \A i \in 1..Len(PartsOf("list")) : \A j \in 1..Len(PartsOf("list")) :
               i # j => PartsOf("list")[i].path # PartsOf("list")[j].path
        /\ \A i \in 1..Len(PartsOf("list")) :
               find_parent(soup, PartsOf("list")[i].path, ListNames) = <<>>
        /\ {PartsOf("list")[i].path : i \in 1..Len(PartsOf("list"))} = ListsReached
        /\ Len(result.lists) = Cardinality(ListsReached)

\* the children with every div replaced by its children
RECURSIVE Unwrapped(_)
Unwrapped(children) ==
    Concat([i \in 1..Len(children) |->
               IF children[i].name = "div" THEN Unwrapped(children[i].children)
               ELSE <<children[i]>>])

\* C17: a page gives the same flattened text, tables and lists as the page
\* with the content of its divs placed directly under the container.
C17_DivTransparent ==
    Extracted =>
        result = ResultOf(Container(Unwrapped(soup.children)),
                          Walk(Container(Unwrapped(soup.children))))

\* empty after trimming
IsBlank(text) == \A i \in 1..Len(text) : text[i] \in {" ", "\n"}

\* C18: when blocks were produced, the flattened text is the blank-line join
\* of exactly the blocks, of any kind, whose rendered text is not empty after
\* trimming.
C18_NoEmptySegment ==
    (Extracted /\ content_parts # <<>>) =>
        LET kept == SelectSeq(content_parts, LAMBDA part : ~IsBlank(Rendered(part)))
        IN  result.text = Join(sBlankLine, [i \in 1..Len(kept) |-> Rendered(kept[i])])

(***************************************************************************)
(* The list extractor.                                                     *)
(***************************************************************************)
\* the nodes below the element that are not inside a tag with one of the
\* names, these tags left out, in document order
RECURSIVE Outside(_, _)
Outside(element, names) ==
    Concat([i \in 1..Len(element.children) |->
               IF element.children[i].name \in names THEN <<>>
               ELSE <<element.children[i]>> \o Outside(element.children[i], names)])

\* the links of the item that are in none of its nested lists
LinksOutsideLists(li) ==
    SelectSeq(Outside(li, ListNames), LAMBDA d : d.name = "a" /\ d.href # <<>>)

\* the text of the item that is in no link and in no nested list
TextOutsideLinksAndLists(li) ==
    LET nodes == Outside(li, ListNames \cup {"a"})
    IN  Concat([i \in 1..Len(nodes) |->
                   IF nodes[i].name = "#text" THEN StrStrip(nodes[i].text) ELSE <<>>])

\* the items are those of the list node, one per item of the list
RECURSIVE ItemsFaithful(_, _)
ItemsFaithful(items, list_elem) ==
    LET lis == SelectSeq(list_elem.children, LAMBDA d : d.name = "li")
    IN  /\ Len(items) = Len(lis)
        /\ \A k \in 1..Len(lis) :
               LET links == LinksOutsideLists(lis[k])
                   child_lists == SelectSeq(lis[k].children, LAMBDA d : d.name \in ListNames)
               IN  /\ Len(items[k].links) = Len(links)
                   /\ \A n \in 1..Len(links) :
                          /\ items[k].links[n].href = AbsoluteHref(links[n])
                          /\ items[k].links[n].text =
                                 IF get_text(links[n]) = <<>> THEN AbsoluteHref(links[n])
                                 ELSE get_text(links[n])
                   /\ items[k].text = TextOutsideLinksAndLists(lis[k])
                   /\ IF child_lists = <<>> THEN items[k].nested_list = <<>>
                      ELSE /\ Len(items[k].nested_list) = 1
                           /\ items[k].nested_list[1].list_type = child_lists[1].name
                           /\ ItemsFaithful(items[k].nested_list[1].items, child_lists[1])

\* C19: for every item of every extracted list, at every depth, links holds in
\* document order exactly the links of the item that are in none of its
\* nested lists, text holds none of the text of these links or of a nested
\* list, and nestedList is made from the first child list of the item alone.
C19_ItemsFaithful ==
    \A p \in 1..Len(PartsOf("list")) :
        ItemsFaithful(ListOf(PartsOf("list")[p]).items, NodeAt(soup, PartsOf("list")[p].path))

\* an item with two child lists, a link of its own and links in its nested
\* lists was extracted: one link, the text around it, the first child list
C19_Witness ==
    /\ Extracted
    /\ \E p \in 1..Len(PartsOf("list")) :
           LET lis == find_all_children(NodeAt(soup, PartsOf("list")[p].path), {"li"})
               items == ListOf(PartsOf("list")[p]).items
           IN  \E k \in 1..Len(lis) :
                   /\ Len(find_all_children(lis[k], ListNames)) = 2
                   /\ Len(find_all_links(lis[k])) >= 3
                   /\ Len(items[k].links) = 1
                   /\ items[k].text = <<"a", "c">>
                   /\ items[k].nested_list # <<>>
                   /\ items[k].nested_list[1].list_type = "ol"
                   /\ Len(items[k].nested_list[1].items) = 2
                   /\ items[k].nested_list[1].items[1].links # <<>>

\* the lines of a list: for every item its own line, the lines of its links,
\* then the lines of its nested list one level deeper
RECURSIVE ListLines(_, _)
ListLines(list_data, level) ==
    Concat([idx \in 1..Len(list_data.items) |->
               LET item == list_data.items[idx]
                   marker == IF list_data.list_type = "ol"
                             THEN IntToStr(idx) \o <<".">> ELSE Bullet
               IN  <<Indent(level) \o marker
                         \o (IF item.text # <<>> THEN <<" ">> \o item.text ELSE <<>>)>>
                   \o [n \in 1..Len(item.links) |-> LinkLine(Indent(level), item.links[n])]
                   \o (IF item.nested_list # <<>>
                       THEN ListLines(item.nested_list[1], level + 1) ELSE <<>>)])

\* C20: the text of a list is made of the lines of its items, depth-first and
\* in order: one line per item, indented by two spaces per level and led by
\* the 1-based index or the bullet, followed by the lines of the links of the
\* item and then by the lines of its nested list.
C20_OneLinePerItem ==
    \A p \in 1..Len(PartsOf("list")) :
        PartsOf("list")[p].text = Join(<<"\n">>, ListLines(ListOf(PartsOf("list")[p]), 0))

\* the terms through which content token i of doc can be counted: its own
\* term and the terms of the noun chunks that cover it
CountedThrough(doc, i) ==
    ({normalise_token(doc.content[i])}
        \cup {normalise_text(doc.chunks[c].lemma) :
                 c \in {n \in 1..Len(doc.chunks) :
                           doc.chunks[n].first <= i /\ i <= doc.chunks[n].last}}) \ {None}

\* C21 (as claimed): a consume call raises, for every content token that
\* token normalisation accepts, the tf of its own term or of the term of a
\* noun chunk that covers it by at least 1; no such token is lost because the
\* noun chunk around it is rejected.
C21_NoContentTokenDropped ==
    [][(last'.op = "consume" /\ Docs[last'.doc].content # <<>>) =>
          \A i \in 1..Len(Docs[last'.doc].content) :
              normalise_token(Docs[last'.doc].content[i]) # None =>
                  \E t \in CountedThrough(Docs[last'.doc], i) :
                      Get(engine'.tf, t) >= Get(engine.tf, t) + 1]_vars

\* C22: in every state reached by consume calls, with dump and load between
\* them, every term has title_hits <= df and title_hits + llm_hits <= tf, and
\* every term whose acronym flag is set has df >= 1.
C22_HitsBounded ==
    engine.alive =>
        \A t \in AllTerms(engine) :
            /\ Get(engine.title_hits, t) <= Get(engine.df, t)
            /\ Get(engine.title_hits, t) + Get(engine.llm_hits, t) <= Get(engine.tf, t)
            /\ IsAcronym(engine, t) => Get(engine.df, t) >= 1

\* a consume after a load that lost terms: a term counted in the title and
\* as a keyword word and nowhere else, and a flagged term
C22_Witness ==
    /\ last.op = "consume"
    /\ snap.valid
    /\ engine # ref
    /\ \E t \in DOMAIN engine.tf :
           /\ Get(engine.title_hits, t) >= 1
           /\ Get(engine.llm_hits, t) >= 1
           /\ engine.tf[t] = Get(engine.title_hits, t) + Get(engine.llm_hits, t)
           /\ Get(engine.title_hits, t) = Get(engine.df, t)
    /\ \E t \in DOMAIN engine.acronym_hits : IsAcronym(engine, t) /\ Get(engine.df, t) >= 1

\* C23 (as claimed): dumping an engine, loading that snapshot and dumping
\* again with the same min_df writes the same snapshot (doc_count, idf, meta
\* and stop_terms) and the same frequency dictionary as the first dump.
C23_DumpLoadDumpSame ==
    [][(/\ last.op = "load"
        /\ FilesIntact
        /\ last'.op = "dump"
        /\ last'.min_df = snap.min_df) =>
          /\ stats' = stats
          /\ symspell' = symspell]_vars

\* C24 (as claimed): for every table with a header section, rows holds the
\* rows outside the header section that have a cell, in order, and so never
\* the row of the header section, with or without a body section.
C24_HeaderRowNotInRows ==
    \A p \in 1..Len(PartsOf("table")) :
        LET part == PartsOf("table")[p]
            table == NodeAt(soup, part.path)
            body == SelectSeq(find_all(Decomposed(table, {"thead"}), {"tr"}),
                              LAMBDA tr : CellsOf(tr) # <<>>)
        IN  find_all(table, {"thead"}) # <<>> =>
                TableOf(part).rows =
                    [r \in 1..Len(body) |->
                        [c \in 1..Len(CellsOf(body[r])) |-> CellContent(CellsOf(body[r])[c])]]

\* C25 (as claimed): a page that was reported as changed and whose
\* processing failed is reported again by the next run that fetches it, while
\* its content stays the same; a page that a run fetches and does not report
\* was indexed successfully before.
C25_FailedPageReportedAgain ==
    last.op = "detect" =>
        \A u \in fetched :
            /\ u \in owed => u \in Range(TIKI_URLS)
            /\ u \notin Range(TIKI_URLS) => u \in DOMAIN index

====
